---- MODULE Spec2Model ----
(***************************************************************************)
(* Rule engine of the allergen detection repository:                       *)
(*   - StrictAllergenDetector (src/src/allergen_detection/                 *)
(*     strict_detector.py): section split, per-section keyword scan with   *)
(*     the shared class-level ALLERGEN_KEYWORDS table, false-positive      *)
(*     filter, confidence, report;                                         *)
(*   - OCRTextCleaner (src/scripts/ocr_text_cleaner.py): clean and the     *)
(*     fuzzy matcher.                                                      *)
(* Texts are TLA+ strings; offsets are Python offsets (0-based, a slice    *)
(* t[a:b] is Slice(t, a, b)).  Confidences are integers in hundredths.     *)
(***************************************************************************)
EXTENDS Integers, Sequences, FiniteSets, TLC

(***************************************************************************)
(* Python str primitives.                                                  *)
(***************************************************************************)
Min2(a, b) == IF a <= b THEN a ELSE b
Max2(a, b) == IF a >= b THEN a ELSE b

\* t[a:b] for 0 <= a, with b clamped to len(t) as Python does.
Slice(t, a, b) ==
    LET e == Min2(b, Len(t))
    IN  IF a >= e THEN "" ELSE SubSeq(t, a + 1, e)

\* The character at 0-based offset p ("" outside the text).
CharAt(t, p) == IF p >= 0 /\ p < Len(t) THEN SubSeq(t, p + 1, p + 1) ELSE ""

\* t.startswith(s, p)
StartsAt(t, p, s) == p + Len(s) <= Len(t) /\ SubSeq(t, p + 1, p + Len(s)) = s

UpperChars ==
    <<"A", "B", "C", "D", "E", "F", "G", "H", "I", "J", "K", "L", "M",
      "N", "O", "P", "Q", "R", "S", "T", "U", "V", "W", "X", "Y", "Z">>
LowerChars ==
    <<"a", "b", "c", "d", "e", "f", "g", "h", "i", "j", "k", "l", "m",
      "n", "o", "p", "q", "r", "s", "t", "u", "v", "w", "x", "y", "z">>
DigitChars == {"0", "1", "2", "3", "4", "5", "6", "7", "8", "9"}
LowerSet == {LowerChars[i] : i \in 1..Len(LowerChars)}
UpperSet == {UpperChars[i] : i \in 1..Len(UpperChars)}

\* \s of the re module, on the characters the inputs use.
SpaceChars == {" ", "\t", "\n", "\r", "\f"}
\* \w of the re module.
WordChars == LowerSet \cup UpperSet \cup DigitChars \cup {"_"}

IsSpace(c) == c \in SpaceChars
IsWordChar(c) == c \in WordChars

LowerChar(c) ==
    IF c \in UpperSet
    THEN LowerChars[CHOOSE i \in 1..Len(UpperChars) : UpperChars[i] = c]
    ELSE c

RECURSIVE LowerFrom(_, _)
LowerFrom(t, p) ==
    IF p >= Len(t) THEN "" ELSE LowerChar(CharAt(t, p)) \o LowerFrom(t, p + 1)

\* str.lower()
Lower(t) == LowerFrom(t, 0)

\* s in t
Contains(t, s) == \E p \in 0..(Len(t) - Len(s)) : SubSeq(t, p + 1, p + Len(s)) = s

\* str.find(s): the first offset of s in t, or -1.
Find(t, s) ==
    IF Contains(t, s)
    THEN CHOOSE p \in 0..(Len(t) - Len(s)) :
             /\ StartsAt(t, p, s)
             /\ \A q \in 0..(p - 1) : ~StartsAt(t, q, s)
    ELSE -1

\* any(s in t for s in list)
ContainsAny(t, list) == \E i \in 1..Len(list) : Contains(t, list[i])

RECURSIVE LStripFrom(_, _)
LStripFrom(t, p) ==
    IF p < Len(t) /\ IsSpace(CharAt(t, p)) THEN LStripFrom(t, p + 1) ELSE p

RECURSIVE RStripTo(_, _)
RStripTo(t, e) ==
    IF e > 0 /\ IsSpace(CharAt(t, e - 1)) THEN RStripTo(t, e - 1) ELSE e

\* str.strip()
Strip(t) == Slice(t, LStripFrom(t, 0), RStripTo(t, Len(t)))

\* The end of the run of non-space characters that starts at p.
RECURSIVE TokenEnd(_, _)
TokenEnd(t, p) ==
    IF p < Len(t) /\ ~IsSpace(CharAt(t, p)) THEN TokenEnd(t, p + 1) ELSE p

RECURSIVE SplitFrom(_, _)
SplitFrom(t, p) ==
    LET a == LStripFrom(t, p)
        b == TokenEnd(t, a)
    IN  IF a >= Len(t) THEN <<>> ELSE <<Slice(t, a, b)>> \o SplitFrom(t, b)

\* str.split(): the whitespace-delimited tokens.
Split(t) == SplitFrom(t, 0)

RECURSIVE JoinFrom(_, _, _)
JoinFrom(sep, ws, i) ==
    IF i > Len(ws) THEN ""
    ELSE IF i = Len(ws) THEN ws[i]
    ELSE ws[i] \o sep \o JoinFrom(sep, ws, i + 1)

\* sep.join(ws)
Join(sep, ws) == JoinFrom(sep, ws, 1)

(***************************************************************************)
(* A matcher for the regular expressions the code uses.  A pattern is a    *)
(* sequence of items; Ends(t, p, pat, k) is the set of offsets at which a  *)
(* match of pat[k..] that starts at p can end.                             *)
(***************************************************************************)
Lit(s) == [kind |-> "lit", s |-> s, set |-> {}, least |-> 0]    \* literal
Opt(s) == [kind |-> "opt", s |-> s, set |-> {}, least |-> 0]    \* (s)?
WB == [kind |-> "wb", s |-> "", set |-> {}, least |-> 0]        \* \b
\* [set]* and [set]+ ; One(set) is a single character of the class.
Star(set) == [kind |-> "rep", s |-> "", set |-> set, least |-> 0]
Plus(set) == [kind |-> "rep", s |-> "", set |-> set, least |-> 1]
One(set) == [kind |-> "one", s |-> "", set |-> set, least |-> 1]
DotStar == [kind |-> "dots", s |-> "", set |-> {}, least |-> 0] \* .*

\* \b at offset p: exactly one side is a word character.
IsBoundary(t, p) == IsWordChar(CharAt(t, p - 1)) # IsWordChar(CharAt(t, p))

RECURSIVE RunEnd(_, _, _)
RunEnd(t, p, set) ==
    IF p < Len(t) /\ CharAt(t, p) \in set THEN RunEnd(t, p + 1, set) ELSE p

RECURSIVE LineEnd(_, _)
LineEnd(t, p) ==
    IF p < Len(t) /\ CharAt(t, p) # "\n" THEN LineEnd(t, p + 1) ELSE p

RECURSIVE Ends(_, _, _, _)
Ends(t, p, pat, k) ==
    IF k > Len(pat) THEN {p}
    ELSE LET it == pat[k] IN
         CASE it.kind = "lit" ->
                IF StartsAt(t, p, it.s) THEN Ends(t, p + Len(it.s), pat, k + 1) ELSE {}
           [] it.kind = "opt" ->
                (IF StartsAt(t, p, it.s) THEN Ends(t, p + Len(it.s), pat, k + 1) ELSE {})
                \cup Ends(t, p, pat, k + 1)
           [] it.kind = "wb" ->
                IF IsBoundary(t, p) THEN Ends(t, p, pat, k + 1) ELSE {}
           [] it.kind = "one" ->
                IF p < Len(t) /\ CharAt(t, p) \in it.set
                THEN Ends(t, p + 1, pat, k + 1) ELSE {}
           [] it.kind = "rep" ->
                UNION {Ends(t, q, pat, k + 1) : q \in (p + it.least)..RunEnd(t, p, it.set)}
           [] it.kind = "dots" ->
                UNION {Ends(t, q, pat, k + 1) : q \in p..LineEnd(t, p)}

MatchesAt(t, p, pat) == Ends(t, p, pat, 1) # {}

\* re.search(pat, t).start(), or -1 when there is no match.
Search(t, pat) ==
    IF \E p \in 0..Len(t) : MatchesAt(t, p, pat)
    THEN CHOOSE p \in 0..Len(t) :
             /\ MatchesAt(t, p, pat)
             /\ \A q \in 0..(p - 1) : ~MatchesAt(t, q, pat)
    ELSE -1

\* The end of the match re takes at p: every repetition of these patterns is
\* greedy and is followed by an item that cannot start inside it, so the
\* match taken is the longest one.
MatchEnd(t, p, pat) ==
    LET es == Ends(t, p, pat, 1) IN CHOOSE e \in es : \A f \in es : f <= e

RECURSIVE SubFrom(_, _, _, _)
SubFrom(t, pat, repl, p) ==
    IF p > Len(t) THEN ""
    ELSE IF MatchesAt(t, p, pat)
         THEN LET e == MatchEnd(t, p, pat)
              IN  IF e > p
                  THEN repl \o SubFrom(t, pat, repl, e)
                  ELSE repl \o CharAt(t, p) \o SubFrom(t, pat, repl, p + 1)
         ELSE CharAt(t, p) \o SubFrom(t, pat, repl, p + 1)

\* re.sub(pat, repl, t): every non-overlapping match, left to right.
Sub(t, pat, repl) == SubFrom(t, pat, repl, 0)

\* r'\b' + re.escape(keyword) + r'\b'
WordPattern(keyword) == <<WB, Lit(keyword), WB>>

\* \bw\b matches at offset p.
WordAt(t, p, w) ==
    SubSeq(t, p + 1, p + Len(w)) = w /\ IsBoundary(t, p) /\ IsBoundary(t, p + Len(w))

\* re.search(r'\b' + re.escape(w) + r'\b', t).start(), or -1.
WordSearch(t, w) ==
    IF \E p \in 0..(Len(t) - Len(w)) : WordAt(t, p, w)
    THEN CHOOSE p \in 0..(Len(t) - Len(w)) :
             /\ WordAt(t, p, w)
             /\ \A q \in 0..(p - 1) : ~WordAt(t, q, w)
    ELSE -1

(***************************************************************************)
(* StrictAllergenDetector: class-level tables.                             *)
(***************************************************************************)
CONTAINS == "CONTAINS"
MAY_CONTAIN == "MAY_CONTAIN"
NOT_DETECTED == "NOT_DETECTED"

\* The key order of the ALLERGEN_KEYWORDS dict.
AllergenOrder ==
    <<"PEANUT", "TREE_NUT", "MILK", "EGG", "GLUTEN", "SOY",
      "FISH", "SHELLFISH", "SESAME", "MUSTARD", "CELERY", "SULPHITES", "LUPIN">>

ALLERGEN_KEYWORDS ==
    [ PEANUT |->
        [keywords |-> <<"peanut", "peanuts", "groundnut", "groundnuts", "arachis">>,
         products |-> <<"peanut oil", "peanut butter", "peanut paste", "peanut flour">>,
         exclusions |-> <<>>],
      TREE_NUT |->
        [keywords |-> <<"almond", "almonds", "walnut", "walnuts", "hazelnut", "hazelnuts",
                       "cashew", "cashews", "pistachio", "pistachios", "pecan", "pecans",
                       "brazil nut", "brazil nuts", "macadamia", "macadamias", "chestnut",
                       "chestnuts", "pine nut", "pine nuts">>,
         products |-> <<"nut butter", "nut oil", "nut paste", "tree nut", "tree nuts">>,
         exclusions |-> <<>>],
      MILK |->
        [keywords |-> <<"milk", "lactose", "casein", "whey", "butter", "cheese", "cream",
                       "yogurt", "yoghurt", "ghee", "milkfat", "dairy">>,
         products |-> <<"milk powder", "milk solids", "milk fat", "dairy product",
                       "dairy products", "whey powder", "whey protein">>,
         exclusions |-> <<>>],
      EGG |->
        [keywords |-> <<"egg", "eggs", "albumen", "ovalbumin", "albumin", "lysozyme",
                       "ovomucoid">>,
         products |-> <<"egg powder", "egg white", "egg yolk", "egg protein">>,
         exclusions |-> <<>>],
      GLUTEN |->
        [keywords |-> <<"gluten", "wheat", "barley", "rye", "spelt", "kamut">>,
         products |-> <<"wheat flour", "wheat protein", "wheat starch", "rye flour",
                       "barley malt">>,
         exclusions |-> <<>>],
      SOY |->
        [keywords |-> <<"soy", "soya", "soybean", "soybeans", "tofu", "tempeh", "edamame">>,
         products |-> <<"soy sauce", "soy lecithin", "soy flour", "soya oil", "soy protein",
                       "soya protein">>,
         exclusions |-> <<>>],
      FISH |->
        [keywords |-> <<"anchovy", "anchovies", "cod", "salmon", "tuna", "trout", "bass",
                       "herring", "sardine", "sardines", "whitebait", "haddock", "pollock",
                       "mackerel", "tilapia">>,
         products |-> <<"fish oil", "fish sauce", "fish stock", "fish protein">>,
         exclusions |-> <<"shellfish">>],
      SHELLFISH |->
        [keywords |-> <<"shrimp", "shrimps", "prawn", "prawns", "crab", "crabs", "lobster",
                       "lobsters", "clam", "clams", "oyster", "oysters", "mussel",
                       "mussels", "scallop", "scallops", "squid", "octopus", "calamari",
                       "crustacean", "crustaceans">>,
         products |-> <<"shellfish", "mollusc", "molluscs", "mollusk", "mollusks">>,
         exclusions |-> <<>>],
      SESAME |->
        [keywords |-> <<"sesame", "tahini", "hummus", "halvah">>,
         products |-> <<"sesame seed", "sesame seeds", "sesame oil">>,
         exclusions |-> <<>>],
      MUSTARD |->
        [keywords |-> <<"mustard", "dijon">>,
         products |-> <<"mustard seed", "mustard seeds", "mustard powder", "mustard oil">>,
         exclusions |-> <<>>],
      CELERY |->
        [keywords |-> <<"celery", "celeriac">>,
         products |-> <<"celery seed", "celery seeds", "celery salt", "celery juice">>,
         exclusions |-> <<>>],
      SULPHITES |->
        [keywords |-> <<"sulphite", "sulphites", "sulfite", "sulfites", "sulphur dioxide",
                       "sulfur dioxide", "e220", "e221", "e222">>,
         products |-> <<>>,
         exclusions |-> <<>>],
      LUPIN |->
        [keywords |-> <<"lupin", "lupine">>,
         products |-> <<"lupin flour", "lupin seed", "lupin seeds">>,
         exclusions |-> <<>>] ]

Classes == {AllergenOrder[i] : i \in 1..Len(AllergenOrder)}

MAY_CONTAIN_PATTERNS ==
    << <<WB, Lit("may"), Plus(SpaceChars), Lit("contain"), WB>>,
       <<WB, Lit("contains"), Plus(SpaceChars), Lit("trace")>>,
       <<WB, Lit("trace"), Opt("s"), Plus(SpaceChars), Lit("of"), WB>>,
       <<WB, Lit("cross"), One(SpaceChars \cup {"-"}), Lit("contaminat")>>,
       <<WB, Lit("may"), Plus(SpaceChars), Lit("contain"), Plus(SpaceChars), Lit("trace")>>,
       <<WB, Lit("produced"), Plus(SpaceChars), Lit("in"), Plus(SpaceChars), Lit("a"),
         Plus(SpaceChars), Lit("facility")>>,
       <<WB, Lit("processed"), Plus(SpaceChars), Lit("with")>>,
       <<WB, Lit("shared"), Plus(SpaceChars), Lit("equipment")>>,
       <<WB, Lit("equipment"), Plus(SpaceChars), DotStar, Lit("allergen")>> >>

AnyMatchesAt(t, p, pats) == \E i \in 1..Len(pats) : MatchesAt(t, p, pats[i])

\* re.compile('|'.join(pats)).search(t).start(), or -1.
SearchAny(t, pats) ==
    IF \E p \in 0..Len(t) : AnyMatchesAt(t, p, pats)
    THEN CHOOSE p \in 0..Len(t) :
             /\ AnyMatchesAt(t, p, pats)
             /\ \A q \in 0..(p - 1) : ~AnyMatchesAt(t, q, pats)
    ELSE -1

non_ingredient_markers ==
    <<"store in", "store at", "storage", "best before", "best by",
      "use by", "expiry", "batch", "lot", "manufactured", "packed on",
      "keep refrigerated", "keep frozen", "refrigerate", "freeze">>

\* The earliest offset of a marker in t, or len(t) when there is none.
RECURSIVE EarliestMarker(_, _, _, _)
EarliestMarker(t, markers, i, best) ==
    IF i > Len(markers) THEN best
    ELSE LET pos == Find(t, markers[i])
         IN  EarliestMarker(t, markers, i + 1,
                            IF pos # -1 /\ pos < best THEN pos ELSE best)

\* The split that keeps the text after the marker in the second section.
SplitSections_NoTrim(text) ==
    LET start == SearchAny(Lower(text), MAY_CONTAIN_PATTERNS)
    IN  IF start # -1
        THEN <<Slice(text, 0, start), Slice(text, start, Len(text))>>
        ELSE <<text, "">>

\* _split_sections: <<ingredient_text, may_contain_text>>.
SplitSections(text) ==
    LET start == SearchAny(Lower(text), MAY_CONTAIN_PATTERNS)
    IN  IF start # -1
        THEN LET may == Slice(text, start, Len(text))
                 pos == EarliestMarker(Lower(may), non_ingredient_markers, 1, Len(may))
             IN  <<Slice(text, 0, start),
                   IF pos < Len(may) THEN Strip(Slice(may, 0, pos)) ELSE may>>
        ELSE <<text, "">>

(***************************************************************************)
(* _is_false_positive                                                      *)
(***************************************************************************)
non_ingredient_phrases ==
    <<"store in", "store at", "storage", "cool place", "dry place",
      "best before", "best by", "use by", "expiry", "expires",
      "batch", "lot", "manufactured", "packed on", "production",
      "room temperature", "refrigerate", "freeze", "keep refrigerated",
      "keep frozen", "once opened", "after opening", "consume within">>

false_positive_compounds ==
    [ shellfish |-> <<"pistachio", "walnut", "almond", "hazelnut", "peanut",
                      "oyster shell", "clam shell", "scallop shell",
                      "eggshell", "seashell", "nutshell", "bombshell",
                      "w/out shell", "without shell", "with shell">>,
      shell |-> <<"eggshell", "seashell", "nutshell", "bombshell", "oyster shell",
                  "walnut", "pistachio", "almond", "hazelnut",
                  "w/out", "without", "with">>,
      nut |-> <<"coconut", "donut", "doughnut", "chestnut">>,
      milk |-> <<"almond milk", "soy milk", "coconut milk", "oat milk", "rice milk">>,
      butter |-> <<"nut butter", "peanut butter", "almond butter", "cashew butter",
                   "cocoa butter", "shea butter", "mango butter">> ]

close_negations == <<"free", "substitute", "free formula", "alternative">>

InSeq(x, list) == \E i \in 1..Len(list) : list[i] = x

\* The "cod" branch: a word holding 'cod' followed by a place word or
\* preceded by a storage word.
CodNearStorage(context) ==
    LET words_around == Split(context)
    IN  \E i \in 1..Len(words_around) :
            /\ Contains(words_around[i], "cod")
            /\ \/ /\ i + 1 <= Len(words_around)
                  /\ words_around[i + 1] \in {"place", "places", "placement", "dry", "cool"}
               \/ /\ i > 1
                  /\ words_around[i - 1] \in {"store", "stored", "keep", "storage"}

\* The last block: a negation word among the two words before the match,
\* and 'free' or 'substitute' after it.
NearNegationBefore(context, upto, text_after) ==
    LET words_before == Split(Slice(context, 0, upto))
        n == Len(words_before)
    IN  /\ n > 0
        /\ \E i \in Max2(1, n - 1)..n : words_before[i] \in {"no", "not", "may", "be", "free"}
        /\ (Contains(text_after, "free") \/ Contains(text_after, "substitute"))

\* _is_false_positive(keyword, text, match) with match = [mstart, mend).
IsFalsePositive(keyword, text, mstart, mend) ==
    LET start == Max2(0, mstart - 50)
        end == Min2(Len(text), mend + 50)
        context == Lower(Slice(text, start, end))
        text_after == Lower(Slice(text, mend, mend + 40))
    IN  IF ContainsAny(context, non_ingredient_phrases) THEN TRUE
        ELSE IF keyword = "cod" /\ CodNearStorage(context) THEN TRUE
        ELSE IF keyword \in DOMAIN false_positive_compounds
                /\ ContainsAny(context, false_positive_compounds[keyword]) THEN TRUE
        ELSE IF keyword \in {"milk", "dairy"} /\ Contains(context, "substitute") THEN TRUE
        ELSE IF keyword = "almond" THEN FALSE
        ELSE IF ContainsAny(text_after, close_negations) THEN TRUE
        ELSE NearNegationBefore(context, mstart - start, text_after)

(***************************************************************************)
(* _calculate_confidence, in hundredths.  The running value is kept in     *)
(* units of 10^-9 so that every halving and every factor 1.1 is exact.     *)
(***************************************************************************)
Nano == 10 ^ 9
NanoPerHundredth == 10 ^ 7

negation_patterns(a) ==
    << <<WB, Lit("no"), Plus(SpaceChars), Lit(a)>>,
       <<WB, Lit("free"), Plus(SpaceChars), Lit("from"), Plus(SpaceChars), Lit(a)>>,
       <<WB, Lit(a), Plus(SpaceChars), Lit("free"), WB>>,
       <<WB, Lit("without"), Plus(SpaceChars), Lit(a)>>,
       <<WB, Lit("does"), Plus(SpaceChars), Lit("not"), Plus(SpaceChars),
         Lit("contain"), Plus(SpaceChars), Lit(a)>>,
       <<WB, Lit("non"), One({"-", " "}), Lit(a)>> >>

ambiguous_words == <<"maybe", "possibly", "unclear", "uncertain">>
explicit_patterns == <<"contains", "ingredients:", "made with", "includes">>

RECURSIVE Halvings(_, _, _)
Halvings(c, ev, i) ==
    IF i > Len(ambiguous_words) THEN c
    ELSE Halvings(IF Contains(ev, ambiguous_words[i]) THEN c \div 2 ELSE c, ev, i + 1)

RECURSIVE Boosts(_, _, _)
Boosts(c, ev, i) ==
    IF i > Len(explicit_patterns) THEN c
    ELSE Boosts(IF Contains(ev, explicit_patterns[i])
                THEN Min2(Nano, (c \div 10) * 11) ELSE c, ev, i + 1)

\* The values between two hundredths that the detector can compute and
\* whose double lies above the midpoint: 0.9 * 0.5 * 0.5 (0.225 as a double)
\* and 0.5 * 1.1 * 1.1 (0.6050000000000001).
TiesAbove == {225 * (Nano \div 1000), 605 * (Nano \div 1000)}

\* round(x, 2) of a value in units of 10^-9: a midpoint that is a double
\* (0.125) goes to the even hundredth, the midpoints of TiesAbove go up.
Round2(c) ==
    LET q == c \div NanoPerHundredth
        r == c % NanoPerHundredth
    IN  IF \/ 2 * r > NanoPerHundredth
           \/ (2 * r = NanoPerHundredth /\ (q % 2 = 1 \/ c \in TiesAbove))
        THEN q + 1 ELSE q

CalculateConfidence(allergen, evidence, category) ==
    LET base_confidence == IF category = CONTAINS THEN Nano ELSE (Nano \div 10) * 9
        evidence_lower == Lower(evidence)
    IN  IF SearchAny(evidence_lower, negation_patterns(Lower(allergen))) # -1
        THEN 10
        ELSE Round2(Boosts(Halvings(base_confidence, evidence_lower, 1), evidence_lower, 1))

(***************************************************************************)
(* _detect_in_section                                                      *)
(***************************************************************************)
instruction_keywords ==
    <<"storage", "instructions", "keep away from", "avoid contact",
      "separate from", "do not store", "store in", "store at",
      "best before", "best by", "use by", "expiry", "expires",
      "batch", "lot", "manufactured", "packed on", "production date",
      "cool place", "dry place", "room temperature", "refrigerate",
      "freeze", "once opened", "after opening", "keep refrigerated",
      "keep frozen", "consume within", "shelf life">>

ingredient_language == <<"ingredient", "contain", "made with", "include">>

\* text_normalized: runs of , ; : become a space, whitespace is collapsed.
Normalized(text_lower) ==
    Strip(Sub(Sub(text_lower, <<Plus({",", ";", ":"})>>, " "), <<Plus(SpaceChars)>>, " "))

\* The early return taken for either category.
InstructionOnly_AnyCategory(text_normalized, category) ==
    /\ ContainsAny(text_normalized, instruction_keywords)
    /\ ~ContainsAny(text_normalized, ingredient_language)

\* The early return for instruction-only sections (CONTAINS only).
InstructionOnly(text_normalized, category) ==
    /\ ContainsAny(text_normalized, instruction_keywords)
    /\ category = CONTAINS
    /\ ~ContainsAny(text_normalized, ingredient_language)

Remove(list, x) == SelectSeq(list, LAMBDA k : k # x)

\* FishAction without the removal branch.
FishAction_NoRemove(fish_keywords, text_normalized) ==
    IF WordSearch(text_normalized, "fish") # -1
          /\ WordSearch(text_normalized, "shellfish") = -1
          /\ ~InSeq("fish", fish_keywords)
    THEN "append" ELSE "none"

\* What the FISH special handling does to the shared 'keywords' list:
\* "append", "remove" or "none".
FishAction(fish_keywords, text_normalized) ==
    IF WordSearch(text_normalized, "fish") # -1
    THEN IF WordSearch(text_normalized, "shellfish") = -1
         THEN IF ~InSeq("fish", fish_keywords) THEN "append" ELSE "none"
         ELSE IF InSeq("fish", fish_keywords) THEN "remove" ELSE "none"
    ELSE "none"

ApplyFishAction(act, fish_keywords) ==
    CASE act = "append" -> Append(fish_keywords, "fish")
      [] act = "remove" -> Remove(fish_keywords, "fish")
      [] OTHER -> fish_keywords

\* ALLERGEN_KEYWORDS after the FISH special handling of one section.
FishUpdate(v, text_normalized) ==
    IF "FISH" \in DOMAIN v
    THEN [v EXCEPT !["FISH"].keywords =
              ApplyFishAction(FishAction(v["FISH"].keywords, text_normalized),
                              v["FISH"].keywords)]
    ELSE v

\* \bfish\b(?!\s*oil|sauce|stock)
FishNotQualified ==
    <<WB, Lit("fish"), WB>>

FishLookahead(t, p) ==
    \/ MatchesAt(t, p, <<Star(SpaceChars), Lit("oil")>>)
    \/ StartsAt(t, p, "sauce")
    \/ StartsAt(t, p, "stock")

StandaloneFishUnqualified(t) ==
    \E p \in 0..Len(t) :
        /\ MatchesAt(t, p, FishNotQualified)
        /\ ~FishLookahead(t, p + Len("fish"))

\* keywords_dict.get(key, [])
GetList(keywords_dict, key) ==
    IF key \in DOMAIN keywords_dict THEN keywords_dict[key] ELSE <<>>

\* The exclusion loop: skip_allergen.
SkipAllergen(allergen_name, keywords_dict, text_normalized) ==
    \E i \in 1..Len(GetList(keywords_dict, "exclusions")) :
        /\ Contains(text_normalized, GetList(keywords_dict, "exclusions")[i])
        /\ allergen_name = "FISH"
        /\ WordSearch(text_normalized, "shellfish") # -1
        /\ ~StandaloneFishUnqualified(text_normalized)

\* text[start:end].strip() around the keyword's first match in text_lower.
Evidence(keyword, text, text_lower) ==
    LET ks == WordSearch(text_lower, keyword)
    IN  IF ks # -1
        THEN Strip(Slice(text, Max2(0, ks - 20), Min2(Len(text), ks + Len(keyword) + 20)))
        ELSE ""

Finding(name, category, evidence, confidence, keyword) ==
    [name |-> name, category |-> category, evidence |-> evidence,
     confidence |-> confidence, matched_keyword |-> keyword]

\* The threshold moved down to one half.
Accepted_Half(confidence) == confidence >= 50

\* "Only add if confidence is high enough": confidence >= 0.7.
Accepted(confidence) == confidence >= 70

\* The inner keyword loop from index i: the first accepted keyword's
\* finding, as a sequence of length 0 or 1.
RECURSIVE ScanKeywords(_, _, _, _, _, _, _)
ScanKeywords(allergen_name, all_keywords, i, text, text_lower, text_normalized, category) ==
    IF i > Len(all_keywords) THEN <<>>
    ELSE LET keyword == all_keywords[i]
             m == WordSearch(text_normalized, keyword)
             evidence == Evidence(keyword, text, text_lower)
             confidence == CalculateConfidence(allergen_name, evidence, category)
             rest == ScanKeywords(allergen_name, all_keywords, i + 1, text,
                                  text_lower, text_normalized, category)
         IN  IF m = -1 THEN rest
             ELSE IF IsFalsePositive(keyword, text_normalized, m, m + Len(keyword)) THEN rest
             ELSE IF Accepted(confidence)
                  THEN <<Finding(allergen_name, category, evidence, confidence, keyword)>>
                  ELSE rest

\* One iteration of the class loop, on the section's three texts.
ScanClass(allergen_name, keywords_dict, text, text_lower, text_normalized, category) ==
    IF SkipAllergen(allergen_name, keywords_dict, text_normalized) THEN <<>>
    ELSE ScanKeywords(allergen_name,
                      GetList(keywords_dict, "keywords") \o GetList(keywords_dict, "products"),
                      1, text, text_lower, text_normalized, category)

\* unique_detected: one finding per name, the first of highest confidence,
\* in order of first appearance.
RECURSIVE Unique(_, _)
Unique(detected, i) ==
    IF i > Len(detected) THEN <<>>
    ELSE LET a == detected[i]
             same == {j \in 1..Len(detected) : detected[j].name = a.name}
             best == CHOOSE j \in same :
                        /\ \A l \in same : detected[l].confidence <= detected[j].confidence
                        /\ \A l \in same : detected[l].confidence = detected[j].confidence => j <= l
         IN  (IF \E j \in 1..(i - 1) : detected[j].name = a.name
              THEN <<>> ELSE <<detected[best]>>) \o Unique(detected, i + 1)

\* The section's early returns.
SectionSkipped(text, category) ==
    \/ text = ""
    \/ Len(Strip(text)) < 1
    \/ InstructionOnly(Normalized(Lower(text)), category)

RECURSIVE ScanAll(_, _, _, _, _, _)
ScanAll(v, i, text, text_lower, text_normalized, category) ==
    IF i > Len(AllergenOrder) THEN <<>>
    ELSE ScanClass(AllergenOrder[i], v[AllergenOrder[i]], text, text_lower,
                   text_normalized, category)
         \o ScanAll(v, i + 1, text, text_lower, text_normalized, category)

\* _detect_in_section on the table v: the findings and the table it leaves.
DetectInSection(text, category, v) ==
    IF SectionSkipped(text, category)
    THEN [found |-> <<>>, vocab |-> v]
    ELSE LET text_lower == Lower(text)
             text_normalized == Normalized(text_lower)
             w == FishUpdate(v, text_normalized)
         IN  [found |-> Unique(ScanAll(w, 1, text, text_lower, text_normalized, category), 1),
              vocab |-> w]

(***************************************************************************)
(* detect and _empty_result                                                *)
(***************************************************************************)
Names(findings) == {findings[i].name : i \in 1..Len(findings)}

NotDetectedOf(names) ==
    LET missing == SelectSeq(AllergenOrder, LAMBDA n : n \notin names)
    IN  [i \in 1..Len(missing) |-> Finding(missing[i], NOT_DETECTED, "", 0, "")]

\* _empty_result that lists no class at all.
EmptyResult_NoneListed ==
    [contains |-> <<>>, may_contain |-> <<>>, not_detected |-> <<>>]

EmptyResult ==
    [contains |-> <<>>, may_contain |-> <<>>, not_detected |-> NotDetectedOf({})]

TooShort(text) == text = "" \/ Len(Strip(text)) < 3

\* detected_names built from the contains list alone.
DetectedNames_ContainsOnly(contains_allergens, may_contain_allergens) ==
    Names(contains_allergens)

DetectedNames(contains_allergens, may_contain_allergens) ==
    Names(contains_allergens \o may_contain_allergens)

\* "Compile results": the report of the two sections' findings c and m, and
\* the table the second section left.
Compile(c, m) ==
    [report |->
        [contains |-> c.found,
         may_contain |-> m.found,
         not_detected |-> NotDetectedOf(DetectedNames(c.found, m.found))],
     vocab |-> m.vocab]

\* The may-contain section, detected on the table the ingredient section
\* left.
DetectMayContain(c, may_contain_section) ==
    Compile(c, DetectInSection(may_contain_section, MAY_CONTAIN, c.vocab))

DetectSections(sections, v) ==
    DetectMayContain(DetectInSection(sections[1], CONTAINS, v), sections[2])

\* detect(text) on the table v: the report and the table it leaves.
Detect(text, v) ==
    IF TooShort(text)
    THEN [report |-> EmptyResult, vocab |-> v]
    ELSE DetectSections(SplitSections(text), v)

\* ---------------------------------------------------------------------------
\* scripts/ocr_text_cleaner.py : OCRTextCleaner
\* ---------------------------------------------------------------------------

\* (pattern, replacement) pairs, applied in this order.
ALLERGEN_PHRASE_PATTERNS ==
    << <<(<<Lit("contain"), Opt("s"), Star(SpaceChars), Star({":", "-"}),
            Star(SpaceChars)>>), "contains ">>,
       <<(<<Lit("may"), Plus(SpaceChars), Lit("contain"), Plus(SpaceChars),
            Lit("trace")>>), "may contain trace">>,
       <<(<<Lit("may"), Plus(SpaceChars), Lit("contain"), Plus(SpaceChars)>>),
         "may contain ">>,
       <<(<<Lit("allergy"), Plus(SpaceChars), Lit("advice"), Star({":", "-"}),
            Star(SpaceChars)>>), "contains ">>,
       <<(<<Lit("allergen"), Opt("s"), Plus(SpaceChars), Lit("info"),
            Star({":", "-"}), Star(SpaceChars)>>), "contains ">>,
       <<(<<Lit("ingredient"), Opt("s"), Star({":", "-"}), Star(SpaceChars)>>),
         "ingredients: ">>,
       <<(<<Plus(SpaceChars), Lit("and"), Plus(SpaceChars)>>), ", ">>,
       <<(<<Lit(","), Star(SpaceChars), Lit(",")>>), ",">> >>

\* OCR variant -> correct form, in the dictionary's iteration order.
ALLERGEN_OCR_FIXES ==
    <<
       <<"peanats", "peanut">>, <<"peanuts", "peanut">>,
       <<"peatat", "peanut">>, <<"peanu", "peanut">>,
       <<"peanut skin-on", "peanut">>, <<"peanut skin on", "peanut">>,
       <<"groundnut", "peanut">>, <<"arachis", "peanut">>, <<"nuts", "nut">>,
       <<"almond", "almond">>, <<"hazelnut", "hazelnut">>,
       <<"walnut", "walnut">>, <<"walnuts", "walnut">>,
       <<"walnt", "walnut">>, <<"cashew", "cashew">>,
       <<"cashews", "cashew">>, <<"pistachio", "pistachio">>,
       <<"pecan", "pecan">>, <<"brazil nut", "brazil nut">>,
       <<"brazil nuts", "brazil nut">>, <<"brazli", "brazil nut">>,
       <<"brazi", "brazil nut">>, <<"macadamia", "macadamia">>,
       <<"coconut", "coconut">>, <<"muts", "nuts">>, <<"nut", "nut">>,
       <<"mk", "milk">>, <<"milk product", "milk">>, <<"dairy", "milk">>,
       <<"lactose", "milk">>, <<"casein", "milk">>, <<"whey", "milk">>,
       <<"butter", "butter">>, <<"cheese", "cheese">>,
       <<"yogurt", "yogurt">>, <<"cereak", "cereal">>, <<"gltn", "gluten">>,
       <<"glten", "gluten">>, <<"wheat", "wheat">>, <<"barley", "barley">>,
       <<"rye", "rye">>, <<"gluten", "gluten">>, <<"flour", "flour">>,
       <<"bread", "bread">>, <<"pasta", "pasta">>, <<"noodle", "noodle">>,
       <<"oat", "oat">>, <<"sesame", "sesame">>, <<"sesem", "sesame">>,
       <<"seseme", "sesame">>, <<"tahini", "tahini">>, <<"hummu", "hummus">>,
       <<"soy", "soy">>, <<"soya", "soy">>, <<"soybean", "soy">>,
       <<"fish", "fish">>, <<"anchovy", "anchovy">>, <<"salmon", "salmon">>,
       <<"tuna", "tuna">>, <<"cod", "cod">>, <<"shellfish", "shellfish">>,
       <<"shrimp", "shrimp">>, <<"prawn", "prawn">>, <<"crab", "crab">>,
       <<"lobster", "lobster">>, <<"clam", "clam">>, <<"oyster", "oyster">>,
       <<"mussel", "mussel">>, <<"scallop", "scallop">>, <<"egg", "egg">>,
       <<"albumen", "albumen">>, <<"mayonnaise", "mayonnaise">>,
       <<"mustard", "mustard">>, <<"dijon", "dijon">>,
       <<"sulphite", "sulphite">>, <<"sulfite", "sulphite">>,
       <<"so2", "sulphite">>, <<"preservative", "preservative">>,
       <<"celery", "celery">>, <<"celeriac", "celery">>, <<"lupin", "lupin">>
    >>

fuzzy_exclusions ==
    {"cream", "cereal", "cream milk", "organic", "ingredients", "contains",
     "serving", "energy", "protein", "total", "sugar"}

fuzzy_allergen_keywords ==
    <<"peanut", "tree nut", "milk", "egg", "fish", "shellfish", "gluten",
      "wheat", "cereal", "sesame", "soy", "sulphite", "mustard", "lupin",
      "walnut", "almond", "cashew", "hazelnut", "pecan", "pistachio",
      "macadamia", "brazil nut", "coconut">>

\* threshold=0.65, as a fraction.
FuzzyThreshold == [num |-> 65, den |-> 100]

\* Length of the common run of a[i:ahi] and b[j:bhi] from their starts.
RECURSIVE CommonLen(_, _, _, _, _, _)
CommonLen(a, i, ahi, b, j, bhi) ==
    IF i < ahi /\ j < bhi /\ CharAt(a, i) = CharAt(b, j)
    THEN 1 + CommonLen(a, i + 1, ahi, b, j + 1, bhi)
    ELSE 0

\* difflib.SequenceMatcher.find_longest_match without junk: the longest
\* common block of a[alo:ahi] and b[blo:bhi]; of the longest, the one that
\* starts earliest in a; of those, the one that starts earliest in b.
FindLongestMatch(a, alo, ahi, b, blo, bhi) ==
    LET len(i, j) == CommonLen(a, i, ahi, b, j, bhi)
        k == CHOOSE n \in 0..(ahi - alo) :
                 /\ n = 0 \/ \E i \in alo..(ahi - 1), j \in blo..(bhi - 1) : len(i, j) = n
                 /\ \A i \in alo..(ahi - 1), j \in blo..(bhi - 1) : len(i, j) <= n
    IN  IF k = 0 THEN [i |-> alo, j |-> blo, size |-> 0]
        ELSE LET i == CHOOSE x \in alo..(ahi - 1) :
                          /\ \E j \in blo..(bhi - 1) : len(x, j) = k
                          /\ \A y \in alo..(x - 1) : \A j \in blo..(bhi - 1) : len(y, j) # k
                 j == CHOOSE x \in blo..(bhi - 1) :
                          /\ len(i, x) = k
                          /\ \A y \in blo..(x - 1) : len(i, y) # k
             IN  [i |-> i, j |-> j, size |-> k]

\* Sum of the sizes of get_matching_blocks(): the longest block, then the
\* same to its left and to its right.
RECURSIVE Matches(_, _, _, _, _, _)
Matches(a, alo, ahi, b, blo, bhi) ==
    IF alo >= ahi \/ blo >= bhi THEN 0
    ELSE LET m == FindLongestMatch(a, alo, ahi, b, blo, bhi)
         IN  IF m.size = 0 THEN 0
             ELSE m.size + Matches(a, alo, m.i, b, blo, m.j)
                         + Matches(a, m.i + m.size, ahi, b, m.j + m.size, bhi)

\* SequenceMatcher(None, a, b).ratio() = 2 * matches / (len(a) + len(b)),
\* kept as the fraction [num, den]; 1.0 when both are empty.
Ratio(a, b) ==
    IF Len(a) + Len(b) = 0 THEN [num |-> 1, den |-> 1]
    ELSE [num |-> 2 * Matches(a, 0, Len(a), b, 0, Len(b)), den |-> Len(a) + Len(b)]

Greater(r, s) == r.num * s.den > s.num * r.den

\* The loop over allergen_keywords: a candidate replaces the best one only
\* when its ratio is strictly greater.
RECURSIVE BestMatch(_, _, _, _)
BestMatch(word, i, best_match, best_score) ==
    IF i > Len(fuzzy_allergen_keywords) THEN best_match
    ELSE LET allergen == fuzzy_allergen_keywords[i]
             ratio == Ratio(Lower(word), allergen)
         IN  IF Greater(ratio, best_score)
             THEN BestMatch(word, i + 1, allergen, ratio)
             ELSE BestMatch(word, i + 1, best_match, best_score)

fuzzy_match_allergen(word) ==
    IF Lower(word) \in fuzzy_exclusions THEN word
    ELSE LET best == BestMatch(word, 1, "", FuzzyThreshold)
         IN  IF best # "" THEN best ELSE word

HasDigit(word) == \E p \in 0..(Len(word) - 1) : CharAt(word, p) \in DigitChars

MinFuzzyLen == 4
MaxFuzzyLen == 8

\* Step 4 without its test of the length and the digits.
FuzzyWord_NoGuard(word) == fuzzy_match_allergen(word)

\* Step 4 on one token.
FuzzyWord(word) ==
    IF Len(word) >= MinFuzzyLen /\ Len(word) <= MaxFuzzyLen /\ ~HasDigit(word)
    THEN fuzzy_match_allergen(word)
    ELSE word

\* re.sub(pattern, replacement, text) for one phrase pattern.
PhraseStep(t, pr) == IF Search(t, pr[1]) = -1 THEN t ELSE Sub(t, pr[1], pr[2])

\* Step 2: the first n phrase patterns, in order.
RECURSIVE ApplyPhrasePatterns(_, _)
ApplyPhrasePatterns(t, n) ==
    IF n = 0 THEN t
    ELSE LET prev == ApplyPhrasePatterns(t, n - 1)
         IN  IF prev = "" THEN "" ELSE PhraseStep(prev, ALLERGEN_PHRASE_PATTERNS[n])

\* re.sub(r'\b' + re.escape(ocr_variant) + r'\b', correct_form, text)
FixStep(t, fx) ==
    IF WordSearch(t, fx[1]) = -1 THEN t ELSE Sub(t, WordPattern(fx[1]), fx[2])

\* Step 3: the OCR fixes lo..hi, in order (the range is halved to keep the
\* evaluation shallow; the order of application is the dictionary's).
RECURSIVE ApplyOcrFixes(_, _, _)
ApplyOcrFixes(t, lo, hi) ==
    IF lo > hi THEN t
    ELSE IF lo = hi THEN FixStep(t, ALLERGEN_OCR_FIXES[lo])
    ELSE LET mid == (lo + hi) \div 2
             left == ApplyOcrFixes(t, lo, mid)
         IN  IF left = "" THEN "" ELSE ApplyOcrFixes(left, mid + 1, hi)

KeptChars == LowerSet \cup DigitChars \cup SpaceChars \cup {"-", ".", ",", ":"}

RECURSIVE RemoveArtifacts(_, _)
RemoveArtifacts(t, p) ==
    IF p >= Len(t) THEN ""
    ELSE (IF CharAt(t, p) \in KeptChars THEN CharAt(t, p) ELSE "")
         \o RemoveArtifacts(t, p + 1)

\* OCRTextCleaner.clean
clean(t) ==
    IF t = "" THEN ""
    ELSE LET lowered == Lower(t)
             phrased == ApplyPhrasePatterns(lowered, Len(ALLERGEN_PHRASE_PATTERNS))
             fixed == ApplyOcrFixes(phrased, 1, Len(ALLERGEN_OCR_FIXES))
             words == Split(fixed)
             fuzzy == Join(" ", [i \in 1..Len(words) |-> FuzzyWord(words[i])])
             spaced == Strip(Sub(fuzzy, <<Plus(SpaceChars)>>, " "))
         IN  RemoveArtifacts(spaced, 0)

\* ---------------------------------------------------------------------------
\* scripts/ocr_text_cleaner.py : _compute_context_confidence,
\* extract_allergen_mentions.  Scores are in hundredths.
\* ---------------------------------------------------------------------------

\* A slice index as Python resolves it: a negative index counts from the
\* end, and the result is clamped to 0..len(t).
SliceIndex(t, i) == IF i < 0 THEN Max2(0, i + Len(t)) ELSE Min2(i, Len(t))

\* t[a:b] for any integers a and b.
PySlice(t, a, b) ==
    LET lo == SliceIndex(t, a)
        hi == SliceIndex(t, b)
    IN  IF lo >= hi THEN "" ELSE SubSeq(t, lo + 1, hi)

window_size == 100

ingredient_markers ==
    <<"ingredients:", "contains:", "may contain", "allergen", "allergy", "contains ">>

food_words ==
    <<"oil", "salt", "sugar", "flour", "sauce", "powder", "extract", "organic",
      "natural", "fresh", "whole", "grain", "seed", "water">>

nutrition_terms ==
    <<"serving", "per 100", "energy", "kilojoule", "calorie", "average", "rdi", "qty">>

metadata_terms == <<"information", "nutrition facts", "label", "package">>

\* sum(1 for word in list if word in context)
CountIn(context, list) == Cardinality({i \in 1..Len(list) : Contains(context, list[i])})

\* r'\d+\s*[gm][gl]?\b', as its two alternatives.
UnitPatterns ==
    << <<Plus(DigitChars), Star(SpaceChars), One({"g", "m"}), One({"g", "l"}), WB>>,
       <<Plus(DigitChars), Star(SpaceChars), One({"g", "m"}), WB>> >>

\* r'\b' + re.escape(keyword) + r'\b\s*:'
HeadingPattern(keyword) == <<WB, Lit(keyword), WB, Star(SpaceChars), Lit(":")>>

\* The number+unit test on the three characters before and after the first
\* occurrence of the keyword in the window.
UnitAdjacent(context, keyword) ==
    LET keyword_pos_in_context == Find(context, keyword)
    IN  /\ keyword_pos_in_context # -1
        /\ LET immediate_before ==
                   PySlice(context, Max2(0, keyword_pos_in_context - 3),
                           keyword_pos_in_context)
               immediate_after ==
                   PySlice(context, keyword_pos_in_context + Len(keyword),
                           Min2(Len(context), keyword_pos_in_context + Len(keyword) + 3))
           IN  SearchAny(immediate_before \o immediate_after, UnitPatterns) # -1

\* The window of the scorer around match_pos.
ContextWindow(t, match_pos, keyword) ==
    Lower(PySlice(t, Max2(0, match_pos - window_size),
                  Min2(Len(t), match_pos + Len(keyword) + window_size)))

\* The score whose nutrition and metadata penalties ignore the ingredient
\* marker.
RawScore_AlwaysPenalized(context, keyword) ==
    LET has_ingredient_marker == ContainsAny(context, ingredient_markers)
        food_word_count == CountIn(context, food_words)
        nutrition_term_count == CountIn(context, nutrition_terms)
    IN  50
        + (IF has_ingredient_marker THEN 60 ELSE 0)
        + Min2(30, food_word_count * 8)
        - (IF nutrition_term_count > 0
           THEN Min2(40, nutrition_term_count * 15) ELSE 0)
        - (IF ContainsAny(context, metadata_terms) THEN 30 ELSE 0)
        - (IF UnitAdjacent(context, keyword) THEN 30 ELSE 0)
        - (IF Search(context, HeadingPattern(keyword)) # -1 THEN 40 ELSE 0)
        + (IF Contains(context, ",") \/ Contains(context, "(") \/ Contains(context, ")")
           THEN 20 ELSE 0)

\* The score before clamping.
RawScore(context, keyword) ==
    LET has_ingredient_marker == ContainsAny(context, ingredient_markers)
        food_word_count == CountIn(context, food_words)
        nutrition_term_count == CountIn(context, nutrition_terms)
    IN  50
        + (IF has_ingredient_marker THEN 60 ELSE 0)
        + Min2(30, food_word_count * 8)
        - (IF nutrition_term_count > 0 /\ ~has_ingredient_marker
           THEN Min2(40, nutrition_term_count * 15) ELSE 0)
        - (IF ContainsAny(context, metadata_terms) /\ ~has_ingredient_marker
           THEN 30 ELSE 0)
        - (IF UnitAdjacent(context, keyword) THEN 30 ELSE 0)
        - (IF Search(context, HeadingPattern(keyword)) # -1 THEN 40 ELSE 0)
        + (IF Contains(context, ",") \/ Contains(context, "(") \/ Contains(context, ")")
           THEN 20 ELSE 0)

\* The clamp without its upper limit.
Clamp_NoUpper(score) == Max2(0, score)

\* max(0.0, min(1.0, score))
Clamp(score) == Max2(0, Min2(100, score))

ComputeContextConfidence(t, match_pos, keyword) ==
    Clamp(RawScore(ContextWindow(t, match_pos, keyword), keyword))

\* The keyword table of extract_allergen_mentions.
allergens ==
    [PEANUT |-> <<"peanut", "groundnut", "arachis">>,
     TREE_NUT |-> <<"almond", "walnut", "cashew", "hazelnut", "pecan", "pistachio",
                    "brazil nut", "macadamia", "coconut", "nut">>,
     MILK |-> <<"milk", "dairy", "lactose", "casein", "whey", "butter", "cheese",
                "yogurt">>,
     GLUTEN |-> <<"gluten", "wheat", "barley", "rye", "flour", "bread", "pasta",
                  "noodle", "oat">>,
     SESAME |-> <<"sesame", "tahini", "hummus">>,
     SOY |-> <<"soy", "soya", "soybean">>,
     FISH |-> <<"fish", "anchovy", "salmon", "tuna", "cod">>,
     SHELLFISH |-> <<"shellfish", "shrimp", "prawn", "crab", "lobster", "clam",
                     "oyster", "mussel", "scallop">>,
     EGG |-> <<"egg", "albumen", "mayonnaise">>,
     MUSTARD |-> <<"mustard", "dijon">>,
     SULPHITES |-> <<"sulphite", "sulphites", "sulfite", "sulfites", "so2",
                     "preservative">>,
     CELERY |-> <<"celery", "celeriac">>,
     LUPIN |-> <<"lupin">>]

CONFIDENCE_THRESHOLD == 40

\* The negation patterns of one keyword (unanchored).
mention_negation_patterns(keyword) ==
    << <<Lit("free"), Plus(SpaceChars), Lit("from"), Plus(SpaceChars), Lit(keyword)>>,
       <<Lit("does"), Plus(SpaceChars), Lit("not"), Plus(SpaceChars), Lit("contain"),
         Plus(SpaceChars), Lit(keyword)>>,
       <<Lit("no"), Plus(SpaceChars), Lit(keyword)>>,
       <<Lit("zero"), Plus(SpaceChars), Lit(keyword)>> >>

\* The offsets re.finditer(r'\bkeyword\b', t) yields (no keyword of the
\* table overlaps itself, so every match is yielded).
FindAll(t, keyword) == {p \in 0..(Len(t) - Len(keyword)) : WordAt(t, p, keyword)}

\* The mention at idx is skipped as negated.
MentionNegated(t, idx, keyword) ==
    LET local_context == Lower(PySlice(t, Max2(0, idx - 50),
                                       Min2(Len(t), idx + Len(keyword) + 50)))
    IN  SearchAny(local_context, mention_negation_patterns(keyword)) # -1

\* The mention at idx is kept: not negated and scored at least the threshold.
MentionKept(t, text_lower, idx, keyword) ==
    /\ ~MentionNegated(t, idx, keyword)
    /\ ComputeContextConfidence(text_lower, idx, keyword) >= CONFIDENCE_THRESHOLD

\* The context recorded for display.
MentionContext(t, idx, keyword) ==
    Strip(PySlice(t, Max2(0, idx - 30), Min2(Len(t), idx + Len(keyword) + 30)))

\* set(mentions) for one class.
Mentions(t, allergen) ==
    LET text_lower == Lower(t)
        keywords == allergens[allergen]
    IN  UNION {{MentionContext(t, idx, keywords[k]) :
                   idx \in {p \in FindAll(text_lower, keywords[k]) :
                               MentionKept(t, text_lower, p, keywords[k])}} :
               k \in 1..Len(keywords)}

\* extract_allergen_mentions(text): class -> set of contexts, for the
\* classes with at least one kept mention.
extract_allergen_mentions(t) ==
    LET found == {a \in DOMAIN allergens : Mentions(t, a) # {}}
    IN  [a \in found |-> Mentions(t, a)]

\* ---------------------------------------------------------------------------
\* scripts/allergen_detection_pipeline.py : AllergenDetectionPipeline
\* .detect_allergens.  A confidence is a fraction [num, den]; a recognizer
\* output is a map class -> sequence of detections [span, confidence], the
\* detection confidences in hundredths.
\* ---------------------------------------------------------------------------

allergen_keyword_map ==
    [PEANUT |-> <<"peanut", "groundnut", "arachis">>,
     TREE_NUT |-> <<"almond", "walnut", "cashew", "hazelnut", "pecan", "pistachio",
                    "brazil nut", "macadamia", "coconut", "nut">>,
     MILK |-> <<"milk", "dairy", "lactose", "casein", "whey", "cream", "butter",
                "cheese", "yogurt">>,
     GLUTEN |-> <<"gluten", "wheat", "barley", "rye", "cereal", "flour", "bread",
                  "pasta", "noodle", "oat">>,
     SESAME |-> <<"sesame", "tahini", "hummus">>,
     SOY |-> <<"soy", "soya", "soybean">>,
     FISH |-> <<"fish", "anchovy", "salmon", "tuna", "cod">>,
     SHELLFISH |-> <<"shellfish", "shrimp", "prawn", "crab", "lobster", "clam",
                     "oyster", "mussel", "scallop">>,
     EGG |-> <<"egg", "albumen", "mayonnaise">>,
     MUSTARD |-> <<"mustard", "dijon">>,
     SULPHITES |-> <<"sulphite", "sulfite", "so2", "preservative">>,
     CELERY |-> <<"celery", "celeriac">>,
     LUPIN |-> <<"lupin">>]

\* The empty all_allergens / an empty recognizer output.
NoAllergens == [a \in {} |-> {}]

DictionaryConfidence == [num |-> 1, den |-> 1]

RECURSIVE SumConfidence(_, _)
SumConfidence(detections, i) ==
    IF i > Len(detections) THEN 0
    ELSE detections[i].confidence + SumConfidence(detections, i + 1)

\* np.mean([d["confidence"] for d in detections]) if detections else 0.0
AvgConf(detections) ==
    IF Len(detections) = 0 THEN [num |-> 0, den |-> 1]
    ELSE [num |-> SumConfidence(detections, 1), den |-> 100 * Len(detections)]

Spans(detections) == {detections[i].span : i \in 1..Len(detections)}

\* max(a, b) of two confidences: b only when it is greater.
MaxConfidence(a, b) == IF Greater(b, a) THEN b ELSE a

\* add_allergen that starts a fresh entry at every call.
add_allergen_Replace(all_allergens, source, allergen, contexts, confidence) ==
    [a \in DOMAIN all_allergens \cup {allergen} |->
        IF a = allergen
        THEN [sources |-> <<source>>, contexts |-> contexts, method |-> "union",
              confidence |-> confidence]
        ELSE all_allergens[a]]

\* add_allergen that overwrites the confidence with the latest source's.
add_allergen_Overwrite(all_allergens, source, allergen, contexts, confidence) ==
    LET base == IF allergen \in DOMAIN all_allergens THEN all_allergens[allergen]
                ELSE [sources |-> <<>>, contexts |-> {}, method |-> "union",
                      confidence |-> confidence]
        entry == [sources |-> Append(base.sources, source),
                  contexts |-> base.contexts \cup contexts,
                  method |-> base.method,
                  confidence |-> confidence]
    IN  [a \in DOMAIN all_allergens \cup {allergen} |->
            IF a = allergen THEN entry ELSE all_allergens[a]]

\* add_allergen that keeps the confidence of the first source.
add_allergen_First(all_allergens, source, allergen, contexts, confidence) ==
    LET base == IF allergen \in DOMAIN all_allergens THEN all_allergens[allergen]
                ELSE [sources |-> <<>>, contexts |-> {}, method |-> "union",
                      confidence |-> confidence]
        entry == [sources |-> Append(base.sources, source),
                  contexts |-> base.contexts \cup contexts,
                  method |-> base.method,
                  confidence |-> base.confidence]
    IN  [a \in DOMAIN all_allergens \cup {allergen} |->
            IF a = allergen THEN entry ELSE all_allergens[a]]

add_allergen(all_allergens, source, allergen, contexts, confidence) ==
    LET base == IF allergen \in DOMAIN all_allergens THEN all_allergens[allergen]
                ELSE [sources |-> <<>>, contexts |-> {}, method |-> "union",
                      confidence |-> confidence]
        entry == [sources |-> Append(base.sources, source),
                  contexts |-> base.contexts \cup contexts,
                  method |-> base.method,
                  confidence |-> MaxConfidence(base.confidence, confidence)]
    IN  [a \in DOMAIN all_allergens \cup {allergen} |->
            IF a = allergen THEN entry ELSE all_allergens[a]]

\* The loop over dict_allergens.items(), over the classes still to add.
RECURSIVE AddDictionary(_, _, _)
AddDictionary(all_allergens, dict_allergens, todo) ==
    IF todo = {} THEN all_allergens
    ELSE LET allergen == CHOOSE a \in todo : TRUE
         IN  AddDictionary(
                 add_allergen(all_allergens, "dictionary", allergen,
                              dict_allergens[allergen], DictionaryConfidence),
                 dict_allergens, todo \ {allergen})

\* The filter of one recognizer class that drops every class that has a
\* keyword list.
Spurious_AnyListed(allergen, cleaned_text, dict_allergens) ==
    allergen \in DOMAIN allergen_keyword_map

\* "Filter spurious labels if no keyword evidence in text".
Spurious(allergen, cleaned_text, dict_allergens) ==
    /\ allergen \in DOMAIN allergen_keyword_map
    /\ ~ContainsAny(cleaned_text, allergen_keyword_map[allergen])
    /\ allergen \notin DOMAIN dict_allergens

\* The loop over one recognizer's output, over the classes still to add.
RECURSIVE AddNer(_, _, _, _, _, _)
AddNer(all_allergens, source, ner_allergens, cleaned_text, dict_allergens, todo) ==
    IF todo = {} THEN all_allergens
    ELSE LET allergen == CHOOSE a \in todo : TRUE
             detections == ner_allergens[allergen]
         IN  AddNer(
                 IF Spurious(allergen, cleaned_text, dict_allergens)
                 THEN all_allergens
                 ELSE add_allergen(all_allergens, source, allergen,
                                   Spans(detections), AvgConf(detections)),
                 source, ner_allergens, cleaned_text, dict_allergens,
                 todo \ {allergen})
(***************************************************************************)
(* State.                                                                  *)
(*   vocab   the class attribute ALLERGEN_KEYWORDS, shared by every        *)
(*           detector instance of the process;                             *)
(*   pc, text, report   one sequential caller of detect;                   *)
(*   th      the callers of the concurrent specification;                  *)
(*   cin, couts   the input of OCRTextCleaner.clean and its successive     *)
(*           outputs;                                                      *)
(*   pipe    one run of AllergenDetectionPipeline.detect_allergens: the    *)
(*           dictionary findings, the two recognizer outputs and the       *)
(*           merged all_allergens.                                         *)
(***************************************************************************)
VARIABLES vocab, pc, text, report, th, cin, couts, pipe, score

vars == <<vocab, pc, text, report, th, cin, couts, pipe, score>>

\* No pipeline run in hand.
NoPipe ==
    [dict_allergens |-> NoAllergens, baseline |-> NoAllergens,
     robust |-> NoAllergens, all_allergens |-> NoAllergens]

\* No call of the context scorer or the fuzzy matcher is under way.
NoScore == [text |-> "", keyword |-> "", match_pos |-> 0, result |-> <<>>]

NoReport == [contains |-> <<>>, may_contain |-> <<>>, not_detected |-> <<>>]

\* The callers of the concurrent specification: threads of one process.
Threads == {"t1", "t2"}

\* A thread's locals: its position in detect, the text, the section number
\* (1 ingredient, 2 may-contain), the index of the class the loop is at, the
\* section's detected list, the finished contains list, the pending change
\* of the FISH keywords, and the report returned.
IdleThread ==
    [pc |-> "idle", text |-> "", sec |-> 1, cls |-> 1, found |-> <<>>,
     contains |-> <<>>, act |-> "none", report |-> NoReport]

(***************************************************************************)
(* The label texts the callers submit.                                     *)
(***************************************************************************)
\* Keywords a label declares, by class.
LabelKeywords ==
    [MILK |-> "milk", GLUTEN |-> "wheat", PEANUT |-> "peanuts", FISH |-> "cod"]

StorageTexts ==
    {"Store in a cool place.", "Best before end 2025.", "Keep in a cool, dry place."}

IngredientDeclaration(k) == "Ingredients: " \o k \o ". "
MayContainStatement(k) == "May contain traces of " \o k \o "."

\* An ingredient declaration, a may-contain statement and a storage text.
Label(ka, kb, s) == IngredientDeclaration(ka) \o MayContainStatement(kb) \o " " \o s

LabelTexts ==
    LET ks == {LabelKeywords[c] : c \in DOMAIN LabelKeywords}
    IN  {IngredientDeclaration(ka) : ka \in ks}
        \cup {IngredientDeclaration(ka) \o MayContainStatement(kb) : ka \in ks, kb \in ks}
        \cup {Label(ka, kb, s) : ka \in ks, kb \in ks, s \in StorageTexts}

\* How many of a class's terms (keywords, then products) the negated
\* requests draw on.
MaxNegatedTerms == 2

AllKeywords(c) == ALLERGEN_KEYWORDS[c].keywords \o ALLERGEN_KEYWORDS[c].products

NegationForms == {"no", "free from", "free", "without", "non"}

\* A text whose only mention of k is negated.
Negated(form, k) ==
    CASE form = "no" -> "No " \o k
      [] form = "free from" -> "Free from " \o k
      [] form = "free" -> k \o " free"
      [] form = "without" -> "Without " \o k
      [] form = "non" -> "Non-" \o k

NegatedTerms(c) ==
    {AllKeywords(c)[j] : j \in 1..Min2(MaxNegatedTerms, Len(AllKeywords(c)))}

NegatedTexts ==
    {Negated(f, k) : f \in NegationForms, k \in UNION {NegatedTerms(c) : c \in Classes}}

\* Items of a "Contains ..." declaration around the fish/shellfish collision.
FishItems ==
    {"fish", "fish oil", "fish sauce", "fish stock", "shellfish", "salmon", "almonds"}

FishTexts ==
    {"Contains " \o x : x \in FishItems}
    \cup {"Contains " \o x \o ", " \o y : x \in FishItems, y \in FishItems}

OtherTexts ==
    {"", "ab", "  ", "Ingredients: milk. May contain milk.", "Free from shellfish",
     "Ingredients: milk. Store in a cool place.",
     "Ingredients: fish. May contain shellfish, fish."}

Init ==
    /\ vocab = ALLERGEN_KEYWORDS
    /\ pc = "idle"
    /\ text = ""
    /\ report = NoReport
    /\ th = [i \in Threads |-> IdleThread]
    /\ cin = ""
    /\ couts = <<>>
    /\ pipe = NoPipe
    /\ score = NoScore

Submit(t) ==
    /\ pc = "idle"
    /\ text' = t
    /\ pc' = "called"
    /\ report' = NoReport
    /\ UNCHANGED <<vocab, th, cin, couts, pipe, score>>

\* Declarations hedged by "maybe", "possibly", "unclear", with and without
\* the words that raise the confidence again.
HedgedTexts ==
    {"maybe contains milk", "possibly milk", "Contains milk, maybe",
     "Contains milk, maybe includes", "May contain milk maybe unclear",
     "Ingredients: wheat, maybe. May contain possibly egg",
     "includes: may contain milk"}

\* Keywords followed by "free", "substitute" or "alternative".
CloseNegationTexts ==
    {"Contains almond free", "Contains almonds free", "Contains walnut free",
     "Contains milk substitute", "Ingredients: almond alternative",
     "Ingredients: egg alternative", "almond free", "May contain almond free"}

\* Two-word keywords whose words are apart by something other than one
\* space.
RespacedTexts ==
    {"Contains brazil  nuts", "Contains brazil, nut", "May contain pine  nuts",
     "Contains sulphur  dioxide", "Contains pine nuts"}

\* Sections with a storage term and no ingredient language.
StorageOnlyTexts ==
    {"Traces of milk. Shelf life 2 years", "milk powder. Shelf life 2 years",
     "Ingredients: milk powder. Shelf life 2 years", "egg, shelf life one year",
     "Egg, shelf life one year. Traces of milk, see instructions"}

\* Precautionary statements with one and with two declaring words in the
\* evidence.
DeclaredTexts ==
    {"Traces of milk, contains, includes", "May contain milk, includes egg",
     "Traces of milk, includes egg"}

Texts ==
    LabelTexts \cup NegatedTexts \cup FishTexts \cup OtherTexts \cup HedgedTexts
        \cup CloseNegationTexts \cup RespacedTexts
        \cup StorageOnlyTexts \cup DeclaredTexts

\* A caller submits a label text.
Request == \E t \in Texts : Submit(t)

\* detect(text), run to completion.
DetectCall ==
    /\ pc = "called"
    /\ \E r \in {Detect(text, vocab)} :
           /\ report' = r.report
           /\ vocab' = r.vocab
    /\ pc' = "done"
    /\ UNCHANGED <<text, th, cin, couts, pipe, score>>

\* The caller takes the report; the next request may follow.
Return ==
    /\ pc = "done"
    /\ pc' = "idle"
    /\ text' = ""
    /\ report' = NoReport
    /\ UNCHANGED <<vocab, th, cin, couts, pipe, score>>

Next ==
    \/ Request
    \/ DetectCall
    \/ Return

Spec == Init /\ [][Next]_vars

(***************************************************************************)
(* Concurrent callers.  Each thread runs detect; the steps are the places  *)
(* where the interpreter may switch threads around an access to the shared *)
(* ALLERGEN_KEYWORDS: the test and the write of the FISH special handling, *)
(* and each iteration of the class loop, which reads the class's lists.    *)
(***************************************************************************)
ConcurrentTexts == {"Contains fish", "Contains fish, shellfish", "Contains salmon"}

CategoryOf(sec) == IF sec = 1 THEN CONTAINS ELSE MAY_CONTAIN

SectionOf(t) == SplitSections(t.text)[t.sec]

ThreadCall(i) ==
    /\ th[i].pc = "idle"
    /\ \E t \in ConcurrentTexts :
           th' = [th EXCEPT ![i] = [IdleThread EXCEPT !.pc = "start", !.text = t]]
    /\ UNCHANGED <<vocab, pc, text, report, cin, couts, pipe, score>>

\* detect up to the first _detect_in_section call.
ThreadStart(i) ==
    /\ th[i].pc = "start"
    /\ th' = [th EXCEPT ![i] =
                 IF TooShort(th[i].text)
                 THEN [@ EXCEPT !.pc = "done", !.report = EmptyResult]
                 ELSE [@ EXCEPT !.pc = "section", !.sec = 1]]
    /\ UNCHANGED <<vocab, pc, text, report, cin, couts, pipe, score>>

\* _detect_in_section up to the FISH special handling.
ThreadSection(i) ==
    /\ th[i].pc = "section"
    /\ th' = [th EXCEPT ![i] =
                 [@ EXCEPT !.found = <<>>, !.cls = 1,
                           !.pc = IF SectionSkipped(SectionOf(th[i]), CategoryOf(th[i].sec))
                                  THEN "unique" ELSE "fish_test"]]
    /\ UNCHANGED <<vocab, pc, text, report, cin, couts, pipe, score>>

\* The tests of the FISH special handling, on the list as it is now.
ThreadFishTest(i) ==
    /\ th[i].pc = "fish_test"
    /\ LET act == FishAction(vocab["FISH"].keywords, Normalized(Lower(SectionOf(th[i]))))
       IN  th' = [th EXCEPT ![i] =
                     [@ EXCEPT !.act = act,
                               !.pc = IF act = "none" THEN "scan" ELSE "fish_write"]]
    /\ UNCHANGED <<vocab, pc, text, report, cin, couts, pipe, score>>

\* The append, or the assignment of the list without 'fish'.
ThreadFishWrite(i) ==
    /\ th[i].pc = "fish_write"
    /\ vocab' = [vocab EXCEPT !["FISH"].keywords = ApplyFishAction(th[i].act, @)]
    /\ th' = [th EXCEPT ![i] = [@ EXCEPT !.act = "none", !.pc = "scan"]]
    /\ UNCHANGED <<pc, text, report, cin, couts, pipe, score>>

\* One iteration of the class loop, reading the class's lists as they are now.
ThreadScan(i) ==
    /\ th[i].pc = "scan"
    /\ LET section == SectionOf(th[i])
           name == AllergenOrder[th[i].cls]
           hit == ScanClass(name, vocab[name], section, Lower(section),
                            Normalized(Lower(section)), CategoryOf(th[i].sec))
       IN  th' = [th EXCEPT ![i] =
                     [@ EXCEPT !.found = @ \o hit,
                               !.cls = @ + 1,
                               !.pc = IF th[i].cls = Len(AllergenOrder)
                                      THEN "unique" ELSE "scan"]]
    /\ UNCHANGED <<vocab, pc, text, report, cin, couts, pipe, score>>

\* The section's return value; after the second section, the report.
ThreadUnique(i) ==
    /\ th[i].pc = "unique"
    /\ LET unique_detected == Unique(th[i].found, 1)
       IN  th' = [th EXCEPT ![i] =
                     IF th[i].sec = 1
                     THEN [@ EXCEPT !.contains = unique_detected, !.found = <<>>,
                                    !.sec = 2, !.pc = "section"]
                     ELSE [@ EXCEPT !.found = <<>>, !.pc = "done",
                                    !.report =
                                        [contains |-> th[i].contains,
                                         may_contain |-> unique_detected,
                                         not_detected |->
                                             NotDetectedOf(DetectedNames(th[i].contains,
                                                                         unique_detected))]]]
    /\ UNCHANGED <<vocab, pc, text, report, cin, couts, pipe, score>>

ThreadReturn(i) ==
    /\ th[i].pc = "done"
    /\ th' = [th EXCEPT ![i] = IdleThread]
    /\ UNCHANGED <<vocab, pc, text, report, cin, couts, pipe, score>>

NextConc ==
    \E i \in Threads :
        \/ ThreadCall(i)
        \/ ThreadStart(i)
        \/ ThreadSection(i)
        \/ ThreadFishTest(i)
        \/ ThreadFishWrite(i)
        \/ ThreadScan(i)
        \/ ThreadUnique(i)
        \/ ThreadReturn(i)

SpecConc == Init /\ [][NextConc]_vars


(***************************************************************************)
(* OCRTextCleaner.clean on its own: a caller cleans a text, then cleans    *)
(* the output again, up to MaxCleans times.                                *)
(***************************************************************************)
MaxCleans == 2

\* Pieces of OCR output: allergen terms, canonical and garbled, and words
\* the cleaner leaves alone.
CleanTokens ==
    {"Brazil Nuts", "tree nut", "Milk", "Peatats", "Skin-On", "Brazi",
     "Muts", "cream", "Contains:", "almnd"}

\* Tokens close to an allergen term that are too short, too long, hold a
\* digit or are on the exclusion list; tokens with punctuation or capitals.
GuardedTokens ==
    {"mlk", "wa1nut", "peanutbutter", "cereal", "organic", "sugar", "milks",
     "cream, sugar", "mlk wa1nut almnd", "Egg (free-range) & Soy!", "E322; 5% milk"}

CleanInputs ==
    {"", "  "} \cup CleanTokens \cup {a \o " " \o b : a, b \in CleanTokens}
        \cup GuardedTokens

CleanSubmit(x) ==
    /\ pc = "idle"
    /\ pc' = "cleaning"
    /\ cin' = x
    /\ couts' = <<>>
    /\ UNCHANGED <<vocab, text, report, th, pipe, score>>

\* A caller hands a text to the cleaner.
CleanRequest == \E x \in CleanInputs : CleanSubmit(x)

\* clean(), applied to the input and then to its own last output.
CleanCall ==
    /\ pc = "cleaning"
    /\ Len(couts) < MaxCleans
    /\ couts' = Append(couts, clean(IF couts = <<>> THEN cin ELSE couts[Len(couts)]))
    /\ UNCHANGED <<vocab, pc, text, report, th, cin, pipe, score>>

CleanReturn ==
    /\ pc = "cleaning"
    /\ Len(couts) = MaxCleans
    /\ pc' = "idle"
    /\ cin' = ""
    /\ couts' = <<>>
    /\ UNCHANGED <<vocab, text, report, th, pipe, score>>

NextClean ==
    \/ CleanRequest
    \/ CleanCall
    \/ CleanReturn

SpecClean == Init /\ [][NextClean]_vars

(***************************************************************************)
(* The detector and the cleaner side by side: a caller hands a text, blank *)
(* or not, to either of them.                                              *)
(***************************************************************************)
\* Inputs with nothing but whitespace in them.
BlankTexts == {"", " ", "  ", "\t\n "}

StageTexts == BlankTexts \cup CleanTokens \cup {"ab", "Contains fish oil"}

StageRequest ==
    \E x \in StageTexts :
        \/ Submit(x)
        \/ CleanSubmit(x)

NextStages ==
    \/ StageRequest
    \/ DetectCall
    \/ Return
    \/ CleanCall
    \/ CleanReturn

SpecStages == Init /\ [][NextStages]_vars

(***************************************************************************)
(* AllergenDetectionPipeline.detect_allergens: the text is cleaned, the    *)
(* dictionary source and the two recognizers report, and the three are     *)
(* merged into all_allergens, the dictionary first.  What a recognizer     *)
(* reports is outside the program: any output is possible.                 *)
(***************************************************************************)
PipeTexts ==
    {"", "tahini", "Ingredients: tahini, milk", "Contains sesame",
     "water, salt", "free from milk", "Energy 25g milk per 100"}

\* Labels a recognizer may emit: two classes of the keyword map and one
\* label the map has no list for.
NerClasses == {"SESAME", "MILK", "ADDITIVE"}

Detection(span, confidence) == [span |-> span, confidence |-> confidence]

NerDetectionLists ==
    {<<Detection("tahini", 90)>>,
     <<Detection("sesame seed", 40), Detection("tahini", 70)>>}

NerOutputs ==
    UNION {[S -> NerDetectionLists] : S \in SUBSET NerClasses}

PipeSubmit(x) ==
    /\ pc = "idle"
    /\ pc' = "pipe_clean"
    /\ cin' = x
    /\ couts' = <<>>
    /\ pipe' = NoPipe
    /\ UNCHANGED <<score, vocab, text, report, th>>

\* A caller hands a text to the pipeline.
PipeRequest == \E x \in PipeTexts : PipeSubmit(x)

\* cleaned_text and dict_allergens.
PipeClean ==
    /\ pc = "pipe_clean"
    /\ pc' = "pipe_ner"
    /\ LET cleaned_text == clean(cin)
       IN  /\ couts' = <<cleaned_text>>
           /\ pipe' = [pipe EXCEPT !.dict_allergens =
                                       extract_allergen_mentions(cleaned_text)]
    /\ UNCHANGED <<score, vocab, text, report, th, cin>>

PipeNer(b, r) ==
    /\ pc = "pipe_ner"
    /\ pc' = "merge_dictionary"
    /\ pipe' = [pipe EXCEPT !.baseline = b, !.robust = r]
    /\ UNCHANGED <<score, vocab, text, report, th, cin, couts>>

\* The two run_ner_model calls.
PipeRecognize == \E b \in NerOutputs, r \in NerOutputs : PipeNer(b, r)

MergeDictionary ==
    /\ pc = "merge_dictionary"
    /\ pc' = "merge_baseline"
    /\ pipe' = [pipe EXCEPT !.all_allergens =
                   AddDictionary(NoAllergens, pipe.dict_allergens,
                                 DOMAIN pipe.dict_allergens)]
    /\ UNCHANGED <<score, vocab, text, report, th, cin, couts>>

MergeBaseline ==
    /\ pc = "merge_baseline"
    /\ pc' = "merge_robust"
    /\ pipe' = [pipe EXCEPT !.all_allergens =
                   AddNer(@, "baseline_ner", pipe.baseline, couts[1],
                          pipe.dict_allergens, DOMAIN pipe.baseline)]
    /\ UNCHANGED <<score, vocab, text, report, th, cin, couts>>

MergeRobust ==
    /\ pc = "merge_robust"
    /\ pc' = "pipe_done"
    /\ pipe' = [pipe EXCEPT !.all_allergens =
                   AddNer(@, "robust_ner", pipe.robust, couts[1],
                          pipe.dict_allergens, DOMAIN pipe.robust)]
    /\ UNCHANGED <<score, vocab, text, report, th, cin, couts>>

\* The report is returned.
PipeReturn ==
    /\ pc = "pipe_done"
    /\ pc' = "idle"
    /\ cin' = ""
    /\ couts' = <<>>
    /\ pipe' = NoPipe
    /\ UNCHANGED <<score, vocab, text, report, th>>

NextPipe ==
    \/ PipeRequest
    \/ PipeClean
    \/ PipeRecognize
    \/ MergeDictionary
    \/ MergeBaseline
    \/ MergeRobust
    \/ PipeReturn

SpecPipe == Init /\ [][NextPipe]_vars
(***************************************************************************)
(* api/allergen_api.py, detect_allergens_from_text: the text is cleaned    *)
(* (clean_text, which hands it to OCRTextCleaner.clean), an empty result   *)
(* of the cleaning is answered with an error, anything else goes to        *)
(* detect.                                                                 *)
(***************************************************************************)
RECURSIVE Without(_, _, _)
Without(t, c, p) ==
    IF p >= Len(t) THEN ""
    ELSE (IF CharAt(t, p) = c THEN "" ELSE CharAt(t, p)) \o Without(t, c, p + 1)

\* base = ' '.join(text.split()).replace('_', '').strip()
Base(t) == Strip(Without(Join(" ", Split(t)), "_", 0))

\* clean_text with the cleaner loaded: text_cleaner.clean(base).
clean_text(t) ==
    IF t = "" THEN ""
    ELSE clean(Base(t))

\* "May contain k" for every keyword and product k of the vocabulary.
PrecautionTexts ==
    UNION {{"May contain " \o AllKeywords(c)[j] : j \in 1..Len(AllKeywords(c))} :
               c \in Classes}

FlowTexts ==
    PrecautionTexts
    \cup {"Peatats Skin-On Brazi Muts", "Peatat Skin-On Brazi Muts", "", "  ",
          "Contains milk", "May contain traces of milk", "tree_nut oil"}

FlowSubmit(x) ==
    /\ pc = "idle"
    /\ pc' = "flow_clean"
    /\ cin' = x
    /\ couts' = <<>>
    /\ text' = ""
    /\ report' = NoReport
    /\ UNCHANGED <<vocab, th, pipe, score>>

\* A client posts a text to /detect-text.
FlowRequest == \E x \in FlowTexts : FlowSubmit(x)

\* cleaned = clean_text(text); "if not cleaned: raise ValueError".
FlowClean ==
    /\ pc = "flow_clean"
    /\ couts' = <<clean_text(cin)>>
    /\ text' = couts'[1]
    /\ pc' = IF text' = "" THEN "flow_error" ELSE "called"
    /\ UNCHANGED <<vocab, report, th, cin, pipe, score>>

\* The response is sent: the formatted report, or the error.
FlowReturn ==
    /\ pc \in {"done", "flow_error"}
    /\ pc' = "idle"
    /\ cin' = ""
    /\ couts' = <<>>
    /\ text' = ""
    /\ report' = NoReport
    /\ UNCHANGED <<vocab, th, pipe, score>>

NextFlow ==
    \/ FlowRequest
    \/ FlowClean
    \/ DetectCall
    \/ FlowReturn

SpecFlow == Init /\ [][NextFlow]_vars

(***************************************************************************)
(* The detector from its construction on, over vocabulary tables that are  *)
(* complete or lack a list in one entry.  FISH is left complete: the FISH  *)
(* handling indexes its 'keywords' list directly.                          *)
(***************************************************************************)
\* The entry e without the list named key.
Lacking(e, key) == [k \in DOMAIN e \ {key} |-> e[k]]

Vocabularies ==
    {ALLERGEN_KEYWORDS,
     [ALLERGEN_KEYWORDS EXCEPT !["MILK"] = Lacking(@, "keywords")],
     [ALLERGEN_KEYWORDS EXCEPT !["MILK"] = Lacking(@, "products")],
     [ALLERGEN_KEYWORDS EXCEPT !["EGG"] = Lacking(Lacking(@, "keywords"), "products")]}

\* Some entry of the table v lacks its 'keywords' or its 'products' list.
Malformed(v) ==
    \E a \in DOMAIN v : ~({"keywords", "products"} \subseteq DOMAIN v[a])

LoadTexts ==
    {"", "Contains milk", "Contains cheese", "Contains egg", "Contains omelette, milk",
     "May contain milk", "Ingredients: wheat, butter, eggs", "water, salt",
     "Contains fish", "Contains fish, shellfish"}

InitLoad ==
    /\ vocab \in Vocabularies
    /\ pc = "unloaded"
    /\ text = ""
    /\ report = NoReport
    /\ th = [i \in Threads |-> IdleThread]
    /\ cin = ""
    /\ couts = <<>>
    /\ pipe = NoPipe
    /\ score = NoScore

\* StrictAllergenDetector(): the two patterns are compiled, the table is
\* not looked at.
Construct ==
    /\ pc = "unloaded"
    /\ pc' = "idle"
    /\ UNCHANGED <<vocab, text, report, th, cin, couts, pipe, score>>

LoadRequest == \E t \in LoadTexts : Submit(t)

NextLoad ==
    \/ Construct
    \/ LoadRequest
    \/ DetectCall
    \/ Return

SpecLoad == InitLoad /\ [][NextLoad]_vars

(***************************************************************************)
(* _compute_context_confidence and OCRTextCleaner.fuzzy_match_allergen     *)
(* called on their own, with any offset: before the text, inside it, past  *)
(* its end.  A confidence is in hundredths.                                *)
(***************************************************************************)
ScoreTexts ==
    {"", "ingredients: milk, sugar, salt, flour", "Energy 250kcal milk 5g per 100g",
     "milk: 2mg", "Nutrition information: protein 3g, fat 2g", "MILK (dairy)",
     "milk: x. new milk", "silk: x. new milk", "milk 5g, raw milk", "silk 5g, raw milk",
     "contains 25g milk: x", "contains 25g milk: serving information energy",
     "serving 25g milk: information"}

ScoreKeywords == {"milk", "sugar", ""}

MatchOffsets == {-200, -110, -1, 0, 13, 300}

FuzzyTokens == CleanTokens \cup {"", "a", "shelfish", "12g", "organic", "MILK"}

ScoreSubmit(t, k, p) ==
    /\ pc = "idle"
    /\ pc' = "scoring"
    /\ score' = [text |-> t, keyword |-> k, match_pos |-> p, result |-> <<>>]
    /\ UNCHANGED <<vocab, text, report, th, cin, couts, pipe>>

ScoreRequest ==
    \E t \in ScoreTexts, k \in ScoreKeywords, p \in MatchOffsets : ScoreSubmit(t, k, p)

\* _compute_context_confidence(text, match_pos, keyword)
ScoreCall ==
    /\ pc = "scoring"
    /\ pc' = "scored"
    /\ score' = [score EXCEPT !.result =
                     <<ComputeContextConfidence(score.text, score.match_pos, score.keyword)>>]
    /\ UNCHANGED <<vocab, text, report, th, cin, couts, pipe>>

FuzzySubmit(w) ==
    /\ pc = "idle"
    /\ pc' = "matching"
    /\ score' = [NoScore EXCEPT !.text = w]
    /\ UNCHANGED <<vocab, text, report, th, cin, couts, pipe>>

FuzzyRequest == \E w \in FuzzyTokens : FuzzySubmit(w)

\* fuzzy_match_allergen(word)
FuzzyCall ==
    /\ pc = "matching"
    /\ pc' = "matched"
    /\ score' = [score EXCEPT !.result = <<fuzzy_match_allergen(score.text)>>]
    /\ UNCHANGED <<vocab, text, report, th, cin, couts, pipe>>

ScoreReturn ==
    /\ pc \in {"scored", "matched"}
    /\ pc' = "idle"
    /\ score' = NoScore
    /\ UNCHANGED <<vocab, text, report, th, cin, couts, pipe>>

NextScore ==
    \/ ScoreRequest
    \/ ScoreCall
    \/ FuzzyRequest
    \/ FuzzyCall
    \/ ScoreReturn

SpecScore == Init /\ [][NextScore]_vars

(***************************************************************************)
(* Properties of detect (specification Spec).                              *)
(***************************************************************************)
Reported == Names(report.contains) \cup Names(report.may_contain)

\* The two sections of the text in hand, normalized as the scan sees them.
SectionText(i) == Normalized(Lower(SplitSections(text)[i]))

\* C1: no class is in both the contains list and the may_contain list of a
\* report.
C1_ContainsMayDisjoint ==
    pc = "done" => Names(report.contains) \cap Names(report.may_contain) = {}

\* C2: the classes named by contains, may_contain and not_detected are
\* exactly the 13 keys of ALLERGEN_KEYWORDS, and no class of not_detected
\* is in contains or may_contain; also for empty and too-short texts.
C2_ReportCoversAllClasses ==
    pc = "done" =>
        /\ Reported \cup Names(report.not_detected) = DOMAIN ALLERGEN_KEYWORDS
        /\ Cardinality(Reported \cup Names(report.not_detected)) = 13
        /\ Names(report.not_detected) \cap Reported = {}

C2_Witness ==
    /\ pc = "done"
    /\ report.contains # <<>>
    /\ report.may_contain # <<>>
    /\ report.not_detected # <<>>

\* C3: no detection call changes the shared vocabulary.
C3_VocabularyUnchanged == vocab = ALLERGEN_KEYWORDS

\* C5: in sequential use the report of detect(text) is the one detect(text)
\* gives on the vocabulary as loaded, whatever calls came before.
C5_ReportDependsOnlyOnText ==
    pc = "done" => report = Detect(text, ALLERGEN_KEYWORDS).report

\* A call that started with 'fish' left in the list by an earlier call (its
\* own text has no standalone 'fish') and that reported FISH.
C5_Witness ==
    /\ pc = "done"
    /\ InSeq("fish", vocab["FISH"].keywords)
    /\ WordSearch(Lower(text), "fish") = -1
    /\ "FISH" \in Reported

\* C6: a text whose only mention of a term k of class c is negated never
\* yields c in contains or may_contain.
C6_NegatedNeverReported ==
    pc = "done" =>
        \A c \in Classes : \A j \in 1..Len(AllKeywords(c)) :
            text \in {Negated(f, AllKeywords(c)[j]) : f \in NegationForms}
                => c \notin Reported

\* C7: an ingredient declaration naming a keyword of class a, a may-contain
\* statement naming a keyword of class b, then a storage instruction:
\* a is in contains, b in may_contain, and nothing else is reported.
C7_LabelSections ==
    pc = "done" =>
        \A a \in DOMAIN LabelKeywords : \A b \in DOMAIN LabelKeywords \ {a} :
            text \in {Label(LabelKeywords[a], LabelKeywords[b], s) : s \in StorageTexts}
                => /\ a \in Names(report.contains)
                   /\ b \in Names(report.may_contain)
                   /\ Reported \subseteq {a, b}

\* C8: with the word 'shellfish' in the section and 'fish' qualified as
\* 'fish oil', 'fish sauce' or 'fish stock', FISH is reported; and
\* detect('Contains fish oil') reports FISH in contains.
C8_QualifiedFishReported ==
    (pc = "done" /\ text \in FishTexts) =>
        LET tn == SectionText(1)
        IN  \/ text = "Contains fish oil"
            \/ /\ WordSearch(tn, "shellfish") # -1
               /\ \E q \in {"fish oil", "fish sauce", "fish stock"} : WordSearch(tn, q) # -1
            => "FISH" \in Names(report.contains)

\* The section names 'shellfish' as a word and has no standalone 'fish'.
ShellfishOnly(tn) == WordSearch(tn, "shellfish") # -1 /\ WordSearch(tn, "fish") = -1

\* C9: in a declaration ('Contains ...') whose section names 'shellfish'
\* and has no standalone 'fish', FISH is skipped, whatever other FISH
\* keywords the section names, and SHELLFISH is reported.
C9_ShellfishAlwaysReported ==
    (pc = "done" /\ text \in FishTexts /\ ShellfishOnly(SectionText(1))) =>
        /\ "FISH" \notin Names(report.contains)
        /\ "SHELLFISH" \in Names(report.contains)

(***************************************************************************)
(* Properties of concurrent detect calls (specification SpecConc).         *)
(***************************************************************************)
\* C4: under every interleaving each call returns the report it returns
\* when run alone.
C4_ConcurrentCallsIsolated ==
    \A i \in Threads :
        th[i].pc = "done" => th[i].report = Detect(th[i].text, ALLERGEN_KEYWORDS).report

\* C10: clean is idempotent: cleaning an output of clean gives that output
\* back, clean(clean(x)) = clean(x) for every input x.
C10_CleanIdempotent ==
    Len(couts) >= 2 => couts[2] = couts[1]

(***************************************************************************)
(* Properties of the pipeline's merge (specification SpecPipe).            *)
(***************************************************************************)
CleanedText == couts[1]

\* The recognizer sources that report class a, in merge order.
RecognizerSources(a) ==
    (IF a \in DOMAIN pipe.baseline THEN <<"baseline_ner">> ELSE <<>>)
    \o (IF a \in DOMAIN pipe.robust THEN <<"robust_ner">> ELSE <<>>)

\* Some keyword of class a's list occurs in the cleaned text.
KeywordOccurs(a) ==
    \E i \in 1..Len(allergen_keyword_map[a]) :
        Contains(CleanedText, allergen_keyword_map[a][i])

Contributions(a) ==
    LET retained == \/ a \notin DOMAIN allergen_keyword_map
                    \/ KeywordOccurs(a)
                    \/ a \in DOMAIN pipe.dict_allergens
    IN  {[source |-> "dictionary", confidence |-> DictionaryConfidence,
          contexts |-> pipe.dict_allergens[a]] : x \in {a} \cap DOMAIN pipe.dict_allergens}
        \cup {[source |-> "baseline_ner", confidence |-> AvgConf(pipe.baseline[a]),
               contexts |-> Spans(pipe.baseline[a])] :
                   x \in {y \in {a} \cap DOMAIN pipe.baseline : retained}}
        \cup {[source |-> "robust_ner", confidence |-> AvgConf(pipe.robust[a]),
               contexts |-> Spans(pipe.robust[a])] :
                   x \in {y \in {a} \cap DOMAIN pipe.robust : retained}}

\* The entry of class a is the merge of what was contributed to it.
MergedEntry(a) ==
    LET entry == pipe.all_allergens[a]
        given == Contributions(a)
    IN  /\ given # {}
        /\ \E k \in given : /\ ~Greater(k.confidence, entry.confidence)
                             /\ ~Greater(entry.confidence, k.confidence)
        /\ \A k \in given : ~Greater(k.confidence, entry.confidence)
        /\ entry.contexts = UNION {k.contexts : k \in given}
        /\ {entry.sources[i] : i \in 1..Len(entry.sources)} = {k.source : k \in given}
        /\ \A i, j \in 1..Len(entry.sources) :
               entry.sources[i] = entry.sources[j] => i = j

\* A step of the merge loses no entry and lowers no entry's confidence.
MergeKeeps ==
    pc \in {"merge_dictionary", "merge_baseline", "merge_robust"} =>
        \A a \in DOMAIN pipe.all_allergens :
            /\ a \in DOMAIN pipe.all_allergens'
            /\ ~Greater(pipe.all_allergens[a].confidence,
                        pipe.all_allergens'[a].confidence)

C13_DictionaryKept ==
    pc \in {"merge_baseline", "merge_robust", "pipe_done"} =>
        \A a \in DOMAIN pipe.dict_allergens :
            /\ a \in DOMAIN pipe.all_allergens
            /\ \E i \in 1..Len(pipe.all_allergens[a].sources) :
                   pipe.all_allergens[a].sources[i] = "dictionary"

\* A finished merge with a dictionary class that a recognizer reported too
\* and a recognizer hit for another class that the filter dropped.
C13_Witness ==
    /\ pc = "pipe_done"
    /\ cin = "Contains sesame"
    /\ "SESAME" \in DOMAIN pipe.dict_allergens
    /\ "SESAME" \in DOMAIN pipe.robust
    /\ "MILK" \in DOMAIN pipe.baseline
    /\ "MILK" \notin DOMAIN pipe.all_allergens

(***************************************************************************)
(* Properties of the detector and the cleaner on degenerate input          *)
(* (specification SpecStages).                                             *)
(***************************************************************************)
\* C14: on an empty or whitespace-only text detect returns empty contains
\* and may_contain and all 13 classes in not_detected, each with
\* confidence 0 and empty evidence; _detect_in_section returns no finding
\* for either category; clean returns the empty string.
C14_BlankInput ==
    /\ (pc = "done" /\ Strip(text) = "") =>
           /\ report.contains = <<>>
           /\ report.may_contain = <<>>
           /\ Len(report.not_detected) = 13
           /\ {report.not_detected[i].name : i \in 1..Len(report.not_detected)} = Classes
           /\ \A i \in 1..Len(report.not_detected) :
                  /\ report.not_detected[i].category = NOT_DETECTED
                  /\ report.not_detected[i].confidence = 0
                  /\ report.not_detected[i].evidence = ""
    /\ Strip(text) = "" =>
           \A category \in {CONTAINS, MAY_CONTAIN} :
               DetectInSection(text, category, vocab).found = <<>>
    /\ (pc = "cleaning" /\ Strip(cin) = "") =>
           \A i \in 1..Len(couts) : couts[i] = ""

\* detect has answered a whitespace-only text.
C14_Witness ==
    /\ pc = "done"
    /\ text = "\t\n "
    /\ Len(report.not_detected) = 13

(***************************************************************************)
(* The acceptance threshold of _detect_in_section (specification Spec).    *)
(***************************************************************************)
\* The confidences _detect_in_section computes for class a in a section:
\* one for each keyword of the table v that matches and is no false
\* positive, none when the section or the class is skipped.
Candidates(a, section, category, v) ==
    LET text_lower == Lower(section)
        text_normalized == Normalized(text_lower)
        all_keywords == v[a].keywords \o v[a].products
    IN  IF SectionSkipped(section, category) \/ SkipAllergen(a, v[a], text_normalized)
        THEN {}
        ELSE {CalculateConfidence(a, Evidence(all_keywords[i], section, text_lower), category) :
                 i \in {j \in 1..Len(all_keywords) :
                            LET m == WordSearch(text_normalized, all_keywords[j])
                            IN  /\ m # -1
                                /\ ~IsFalsePositive(all_keywords[j], text_normalized, m,
                                                    m + Len(all_keywords[j]))}}

\* The findings of one section are the classes with a candidate of
\* confidence 0.7 or more, each with the confidence of such a candidate.
Emitted(findings, section, category, v) ==
    /\ \A a \in Classes :
           (\E i \in 1..Len(findings) : findings[i].name = a)
               <=> (\E c \in Candidates(a, section, category, v) : c >= 70)
    /\ \A i \in 1..Len(findings) :
           /\ findings[i].confidence \in Candidates(findings[i].name, section, category, v)
           /\ findings[i].confidence >= 70
           /\ findings[i].confidence <= 100

\* What a detect call leaves in the report, given the text and the table
\* it was called with.
DetectEmits ==
    pc = "called" =>
        LET sections == SplitSections(text)
            cv == DetectInSection(sections[1], CONTAINS, vocab).vocab
            mv == DetectInSection(sections[2], MAY_CONTAIN, cv).vocab
        IN  /\ TooShort(text) => report'.contains = <<>> /\ report'.may_contain = <<>>
            /\ ~TooShort(text) =>
                   /\ Emitted(report'.contains, sections[1], CONTAINS, cv)
                   /\ Emitted(report'.may_contain, sections[2], MAY_CONTAIN, mv)
            /\ \A i \in 1..Len(report'.not_detected) :
                   report'.not_detected[i].confidence = 0

\* C15: a keyword match that is no false positive is reported if and only
\* if its computed confidence is at least 0.7, so that every finding in
\* contains or may_contain has a confidence in [0.7, 1.0] and every
\* not_detected entry has confidence 0.  The test itself accepts 0.70 and
\* rejects 0.69; no text makes the detector compute either value (what it
\* computes is 1.0 or 0.9, halved for each hedging word and raised by a
\* tenth for each declaring word, or 0.1).
C15_AcceptedIffThreshold ==
    /\ [][DetectEmits]_vars
    /\ [](Accepted(70) /\ ~Accepted(69))

\* A call that rejected a candidate of confidence 0.55 (wheat, hedged by
\* "maybe") and one of 0.45 (egg, "possibly"), reporting nothing.
C15_Witness ==
    /\ pc = "done"
    /\ text = "Ingredients: wheat, maybe. May contain possibly egg"
    /\ report.contains = <<>>
    /\ report.may_contain = <<>>
    /\ Candidates("GLUTEN", SplitSections(text)[1], CONTAINS, vocab) = {55}
    /\ Candidates("EGG", SplitSections(text)[2], MAY_CONTAIN, vocab) = {45}

(***************************************************************************)
(* Properties of cleaning followed by detection (specification SpecFlow).  *)
(***************************************************************************)
\* C16: cleaning 'Peatats Skin-On Brazi Muts' yields a text that contains
\* 'peanut' and 'brazil nut', and detect on the cleaned text reports
\* PEANUT and TREE_NUT in contains.
C16_PeatatsRecognised ==
    (pc = "done" /\ cin = "Peatats Skin-On Brazi Muts") =>
        /\ Contains(couts[1], "peanut")
        /\ Contains(couts[1], "brazil nut")
        /\ {"PEANUT", "TREE_NUT"} \subseteq Names(report.contains)

(***************************************************************************)
(* The vocabulary at construction (specification SpecLoad).                *)
(***************************************************************************)
\* C17: a table with an entry that lacks its 'keywords' or 'products' list
\* is rejected when the detector is constructed: no detect call is ever
\* served on it.
C17_MalformedRejected ==
    Malformed(vocab) => pc = "unloaded"

(***************************************************************************)
(* The context scorer and the fuzzy matcher (specification SpecScore).     *)
(***************************************************************************)
\* C18: for every text, keyword and offset, negative and past the end of
\* the text included, _compute_context_confidence returns a value in
\* [0, 1]; fuzzy_match_allergen returns a string for every token.
C18_ScorerTotal ==
    /\ pc = "scored" =>
           /\ Len(score.result) = 1
           /\ score.result[1] \in 0..100
    /\ pc = "matched" =>
           /\ Len(score.result) = 1
           /\ score.result[1] \in STRING

\* The scorer has answered for an offset before the text, on a text whose
\* signals add up to more than 1 before clamping.
C18_Witness ==
    /\ pc = "scored"
    /\ score.text = "ingredients: milk, sugar, salt, flour"
    /\ score.keyword = "milk"
    /\ score.match_pos = -1
    /\ score.result = <<100>>
    /\ RawScore(ContextWindow(score.text, score.match_pos, score.keyword), score.keyword) > 100

(***************************************************************************)
(* Storage vocabulary next to an ingredient list (specification Spec).     *)
(***************************************************************************)
\* C19: in a section with explicit ingredient language, storage vocabulary
\* elsewhere in the section does not suppress a clean keyword match:
\* detect('Ingredients: milk. Store in a cool place.') reports MILK in
\* contains.
C19_StorageKeepsFinding ==
    (pc = "done" /\ text = "Ingredients: milk. Store in a cool place.") =>
        "MILK" \in Names(report.contains)

(***************************************************************************)
(* Precautionary statements through cleaning and detection                 *)
(* (specification SpecFlow).                                               *)
(***************************************************************************)
\* C20: for every keyword k of every class C, cleaning 'May contain k' and
\* running detect on the cleaned text yields C in may_contain and not in
\* contains.
C20_PrecautionKept ==
    \A c \in Classes : \A j \in 1..Len(AllKeywords(c)) :
        (pc = "done" /\ cin = "May contain " \o AllKeywords(c)[j]) =>
            /\ c \in Names(report.may_contain)
            /\ c \notin Names(report.contains)

(***************************************************************************)
(* Close negation after a match (specification Spec).                      *)
(***************************************************************************)
\* The match of the keyword in the section text t is followed, within 40
\* characters, by 'free', 'substitute' or 'alternative'.
CloseNegated(keyword, t) ==
    LET m == WordSearch(t, keyword)
    IN  /\ m # -1
        /\ ContainsAny(Lower(Slice(t, m + Len(keyword), m + Len(keyword) + 40)),
                       <<"free", "substitute", "alternative">>)

\* C21: a keyword match followed within 40 characters by 'free',
\* 'substitute' or 'alternative' produces no finding, whatever the class.
C21_CloseNegationRejects ==
    pc = "done" =>
        /\ \A i \in 1..Len(report.contains) :
               ~CloseNegated(report.contains[i].matched_keyword, SectionText(1))
        /\ \A i \in 1..Len(report.may_contain) :
               ~CloseNegated(report.may_contain[i].matched_keyword, SectionText(2))

(***************************************************************************)
(* Evidence of a finding (specification Spec).                             *)
(***************************************************************************)
\* The evidence is a non-empty part of the section, taken from within 20
\* characters on either side of an occurrence of the keyword, and holds
\* the keyword.
EvidenceIn(f, section) ==
    /\ f.evidence # ""
    /\ Contains(Lower(f.evidence), f.matched_keyword)
    /\ \E ks \in 0..Len(section) :
           /\ Slice(Lower(section), ks, ks + Len(f.matched_keyword)) = f.matched_keyword
           /\ Contains(Slice(section, Max2(0, ks - 20),
                              Min2(Len(section), ks + Len(f.matched_keyword) + 20)),
                        f.evidence)

\* C22: every finding in contains or may_contain carries an evidence string
\* that is a non-empty substring of its section's original text, contains
\* the matched keyword, and extends at most 20 characters on either side of
\* that keyword occurrence.
C22_EvidenceWindow ==
    pc = "done" =>
        /\ \A i \in 1..Len(report.contains) :
               EvidenceIn(report.contains[i], SplitSections(text)[1])
        /\ \A i \in 1..Len(report.may_contain) :
               EvidenceIn(report.may_contain[i], SplitSections(text)[2])

(***************************************************************************)
(* The two sections of a text (specification Spec).                        *)
(***************************************************************************)
\* A may-contain trigger matches at offset p of the lowercased text tl.
TriggerAt(tl, p) == AnyMatchesAt(tl, p, MAY_CONTAIN_PATTERNS)

FirstTrigger(tl, p) == TriggerAt(tl, p) /\ \A q \in 0..(p - 1) : ~TriggerAt(tl, q)

\* A non-ingredient marker starts at offset q of tl.
MarkerAt(tl, q) ==
    \E i \in 1..Len(non_ingredient_markers) :
        Slice(tl, q, q + Len(non_ingredient_markers[i])) = non_ingredient_markers[i]

\* The first marker of tl at or after offset p, or the end of the text.
FirstMarkerFrom(tl, p) ==
    IF \E q \in p..Len(tl) : MarkerAt(tl, q)
    THEN CHOOSE q \in p..Len(tl) : MarkerAt(tl, q) /\ \A r \in p..(q - 1) : ~MarkerAt(tl, r)
    ELSE Len(tl)

\* The sections of the text in hand are those of a first trigger at p and
\* a first marker at m.
SplitAt(sections, p, m) ==
    /\ sections[1] = Slice(text, 0, p)
    /\ sections[2] = IF m < Len(text) THEN Strip(Slice(text, p, m))
                                      ELSE Slice(text, p, Len(text))
    /\ \A i \in 1..Len(report.contains) :
           WordSearch(Normalized(Lower(Slice(text, 0, p))),
                      report.contains[i].matched_keyword) # -1

SplitRight(sections, tl) ==
    /\ (\A p \in 0..Len(tl) : ~TriggerAt(tl, p)) => sections = <<text, "">>
    /\ \A p \in 0..Len(tl) :
           FirstTrigger(tl, p) => SplitAt(sections, p, FirstMarkerFrom(tl, p))

\* C23: with no may-contain trigger the ingredient section is the whole
\* text and the may-contain section is empty; with a trigger the ingredient
\* section is the text before the first trigger match and the may-contain
\* section is the text from the trigger up to the earliest non-ingredient
\* marker (less the white space before the marker), so that no keyword is
\* reported in contains unless it occurs before the trigger.
C23_SplitAtFirstTrigger ==
    pc \in {"called", "done"} => SplitRight(SplitSections(text), Lower(text))

\* A label with a declaration, a precautionary statement and a storage
\* text has been served: the storage text is in neither section.
C23_Witness ==
    /\ pc = "done"
    /\ text = Label("milk", "wheat", "Store in a cool place.")
    /\ FirstTrigger(Lower(text), 19)
    /\ SplitSections(text) = <<"Ingredients: milk. ", "May contain traces of wheat.">>
    /\ Names(report.contains) = {"MILK"}
    /\ Names(report.may_contain) = {"GLUTEN"}

(***************************************************************************)
(* The guard on storage sections (specification Spec).                     *)
(***************************************************************************)
\* The section has a storage, shelf-life or instruction term and none of
\* 'ingredient', 'contain', 'made with', 'include'.
StorageOnly(section) ==
    /\ ContainsAny(Normalized(Lower(section)), instruction_keywords)
    /\ ~ContainsAny(Normalized(Lower(section)), ingredient_language)

\* A keyword of class a matches in the section, is no false positive and
\* has an accepted confidence under the category.
CleanMatch(a, section, category) ==
    /\ ~SkipAllergen(a, vocab[a], Normalized(Lower(section)))
    /\ \E j \in 1..Len(AllKeywords(a)) :
           LET m == WordSearch(Normalized(Lower(section)), AllKeywords(a)[j])
           IN  /\ m # -1
               /\ ~IsFalsePositive(AllKeywords(a)[j], Normalized(Lower(section)), m,
                                   m + Len(AllKeywords(a)[j]))
               /\ Accepted(CalculateConfidence(a, Evidence(AllKeywords(a)[j], section,
                                                           Lower(section)), category))

\* C24: a section with a storage, shelf-life or instruction term and no
\* ingredient language gives no CONTAINS finding at all; the same section
\* scanned for MAY_CONTAIN keeps the finding of every clean match.
C24_StorageGuard ==
    (pc = "done" /\ ~TooShort(text)) =>
        /\ StorageOnly(SplitSections(text)[1]) => report.contains = <<>>
        /\ StorageOnly(SplitSections(text)[2]) =>
               \A a \in Classes :
                   CleanMatch(a, SplitSections(text)[2], MAY_CONTAIN)
                       => a \in Names(report.may_contain)

\* A text whose two sections both have a storage term and no ingredient
\* language: the egg of the first is dropped, the milk of the second kept.
C24_Witness ==
    /\ pc = "done"
    /\ text = "Egg, shelf life one year. Traces of milk, see instructions"
    /\ StorageOnly(SplitSections(text)[1])
    /\ StorageOnly(SplitSections(text)[2])
    /\ report.contains = <<>>
    /\ Names(report.may_contain) = {"MILK"}

(***************************************************************************)
(* The confidence of a finding (specification Spec).                       *)
(***************************************************************************)
\* The category base, halved once for any hedging word and raised by a
\* tenth once, up to 1.0, for any declaring word; in thousandths.
OnceEach(evidence, category) ==
    LET base == IF category = CONTAINS THEN 1000 ELSE 900
        hedged == IF ContainsAny(Lower(evidence), <<"maybe", "possibly", "unclear">>)
                  THEN base \div 2 ELSE base
    IN  IF ContainsAny(Lower(evidence), explicit_patterns)
        THEN Min2(1000, (hedged * 11) \div 10)
        ELSE hedged

\* C25: the confidence of a finding is the category base (1.0 for CONTAINS,
\* 0.9 for MAY_CONTAIN), halved once if any hedging word is in the evidence
\* and multiplied by 1.1 once (capped at 1.0) if any declaring phrase is in
\* the evidence: MAY_CONTAIN evidence with 'contains' and 'includes' scores
\* 0.99.
C25_FactorsOnce ==
    pc = "done" =>
        /\ \A i \in 1..Len(report.contains) :
               report.contains[i].confidence * 10
                   = OnceEach(report.contains[i].evidence, CONTAINS)
        /\ \A i \in 1..Len(report.may_contain) :
               report.may_contain[i].confidence * 10
                   = OnceEach(report.may_contain[i].evidence, MAY_CONTAIN)

(***************************************************************************)
(* The penalties at the occurrence being scored (specification SpecScore). *)
(***************************************************************************)
\* The number+unit test on the three characters before and after the
\* occurrence of the keyword at offset p of the window.
UnitAdjacentAt(context, keyword, p) ==
    SearchAny(PySlice(context, Max2(0, p - 3), p)
                  \o PySlice(context, p + Len(keyword),
                             Min2(Len(context), p + Len(keyword) + 3)),
              UnitPatterns) # -1

\* The score whose two penalties are decided at offset p of the window.
ScoreAt(context, keyword, p) ==
    Clamp(RawScore(context, keyword)
          + (IF UnitAdjacent(context, keyword) THEN 30 ELSE 0)
          - (IF UnitAdjacentAt(context, keyword, p) THEN 30 ELSE 0)
          + (IF Search(context, HeadingPattern(keyword)) # -1 THEN 40 ELSE 0)
          - (IF MatchesAt(context, p, HeadingPattern(keyword)) THEN 40 ELSE 0))

\* C26: the number+unit penalty and the heading penalty are decided by the
\* text adjacent to the occurrence of the keyword at the match offset;
\* another occurrence of the keyword in the window does not change the
\* score.
C26_PenaltiesAtMatch ==
    (/\ pc = "scored"
     /\ score.keyword # ""
     /\ score.match_pos >= 0
     /\ PySlice(Lower(score.text), score.match_pos,
                score.match_pos + Len(score.keyword)) = score.keyword)
        => score.result[1] =
               ScoreAt(ContextWindow(score.text, score.match_pos, score.keyword),
                       score.keyword, score.match_pos - Max2(0, score.match_pos - window_size))

(***************************************************************************)
(* Ingredient markers over nutrition noise (specification SpecScore).      *)
(***************************************************************************)
\* The score of a window with an ingredient marker when the nutrition and
\* metadata terms subtract nothing.
MarkedScore(context, keyword) ==
    Clamp(110
          + Min2(30, CountIn(context, food_words) * 8)
          - (IF UnitAdjacent(context, keyword) THEN 30 ELSE 0)
          - (IF Search(context, HeadingPattern(keyword)) # -1 THEN 40 ELSE 0)
          + (IF Contains(context, ",") \/ Contains(context, "(") \/ Contains(context, ")")
             THEN 20 ELSE 0))

Marked(context, keyword, result) ==
    ContainsAny(context, ingredient_markers) =>
        /\ result = MarkedScore(context, keyword)
        /\ result >= CONFIDENCE_THRESHOLD

\* C27: when the scoring window has an ingredient marker, the nutrition and
\* metadata terms subtract nothing and the score is at least 0.4, the gate
\* of extract_allergen_mentions, whatever the other signals.
C27_MarkerDominates ==
    pc = "scored" =>
        Marked(ContextWindow(score.text, score.match_pos, score.keyword), score.keyword,
               score.result[1])

\* A window with a marker, two nutrition terms, a metadata term, a number
\* with a unit next to the keyword and a colon after it: the score is 0.4.
C27_Witness ==
    /\ pc = "scored"
    /\ score.text = "contains 25g milk: serving information energy"
    /\ score.keyword = "milk"
    /\ score.match_pos = 13
    /\ CountIn(score.text, nutrition_terms) = 2
    /\ ContainsAny(score.text, metadata_terms)
    /\ UnitAdjacent(score.text, score.keyword)
    /\ score.result = <<40>>

(***************************************************************************)
(* The guards of the fuzzy step (specification SpecClean).                 *)
(***************************************************************************)
\* The tokens that enter step 4 of clean(x).
FuzzyInput(x) ==
    Split(ApplyOcrFixes(ApplyPhrasePatterns(Lower(x), Len(ALLERGEN_PHRASE_PATTERNS)),
                        1, Len(ALLERGEN_OCR_FIXES)))

\* The token is shorter than 4 or longer than 8 characters, holds a digit
\* or is on the exclusion list.
Guarded(word) ==
    \/ Len(word) < 4
    \/ Len(word) > 8
    \/ HasDigit(word)
    \/ word \in fuzzy_exclusions

\* The output of clean when step 4 leaves every guarded token as it is and
\* hands the others to the fuzzy matcher.
GuardedOutput(words) ==
    RemoveArtifacts(
        Strip(Sub(Join(" ", [i \in 1..Len(words) |->
                                IF Guarded(words[i]) THEN words[i]
                                ELSE fuzzy_match_allergen(words[i])]),
                  <<Plus(SpaceChars)>>, " ")),
        0)

\* C28: the fuzzy step of clean never replaces a token that is shorter
\* than 4 or longer than 8 characters, that holds a digit or that is on the
\* exclusion list, whatever its similarity to an allergen term.
C28_FuzzyGuards ==
    (pc = "cleaning" /\ Len(couts) >= 1 /\ cin # "") =>
        /\ \A i \in 1..Len(FuzzyInput(cin)) :
               Guarded(FuzzyInput(cin)[i]) => FuzzyWord(FuzzyInput(cin)[i]) = FuzzyInput(cin)[i]
        /\ couts[1] = GuardedOutput(FuzzyInput(cin))

\* A text with a short token and a token with a digit, both close to an
\* allergen term, next to a garbled token of fitting length: only the
\* last is corrected.
C28_Witness ==
    /\ pc = "cleaning"
    /\ cin = "mlk wa1nut almnd"
    /\ Len(couts) >= 1
    /\ couts[1] = "mlk wa1nut almond"
    /\ fuzzy_match_allergen("mlk") = "milk"
    /\ fuzzy_match_allergen("wa1nut") = "walnut"

(***************************************************************************)
(* The characters of a cleaned text (specification SpecClean).             *)
(***************************************************************************)
\* No white space at either end and no two white-space characters in a row.
Collapsed(t) ==
    /\ t # "" => CharAt(t, 0) \notin SpaceChars /\ CharAt(t, Len(t) - 1) \notin SpaceChars
    /\ \A p \in 0..(Len(t) - 2) :
           ~(CharAt(t, p) \in SpaceChars /\ CharAt(t, p + 1) \in SpaceChars)

\* C29: the output of clean holds only lowercase letters, digits, white
\* space and the characters - . , : and its white space is collapsed: none
\* at either end, no run of two or more.
C29_CleanAlphabet ==
    pc = "cleaning" =>
        \A i \in 1..Len(couts) :
            /\ \A p \in 0..(Len(couts[i]) - 1) : CharAt(couts[i], p) \in KeptChars
            /\ Collapsed(couts[i])

(***************************************************************************)
(* The order of the sources in the merge (specification SpecPipe).         *)
(***************************************************************************)
SourceOrders ==
    {o \in [1..3 -> {"dictionary", "baseline_ner", "robust_ner"}] :
        \A i, j \in 1..3 : o[i] = o[j] => i = j}

\* One source's loop of detect_allergens, applied to all_allergens.
AddSource(all_allergens, source) ==
    IF source = "dictionary"
    THEN AddDictionary(all_allergens, pipe.dict_allergens, DOMAIN pipe.dict_allergens)
    ELSE IF source = "baseline_ner"
    THEN AddNer(all_allergens, source, pipe.baseline, couts[1], pipe.dict_allergens,
                DOMAIN pipe.baseline)
    ELSE AddNer(all_allergens, source, pipe.robust, couts[1], pipe.dict_allergens,
                DOMAIN pipe.robust)

\* The three loops run in the order o.
MergedInOrder(o) == AddSource(AddSource(AddSource(NoAllergens, o[1]), o[2]), o[3])

\* Two reports have the same classes, each with the same confidence, the
\* same set of contexts and the same set of sources.
SameReport(x, y) ==
    /\ DOMAIN x = DOMAIN y
    /\ \A a \in DOMAIN x :
           /\ ~Greater(x[a].confidence, y[a].confidence)
           /\ ~Greater(y[a].confidence, x[a].confidence)
           /\ x[a].contexts = y[a].contexts
           /\ {x[a].sources[i] : i \in 1..Len(x[a].sources)}
                  = {y[a].sources[i] : i \in 1..Len(y[a].sources)}

\* C30: the merged report does not depend on the order in which the
\* dictionary, the baseline recognizer and the robust recognizer are added:
\* every order gives the classes, confidences, contexts and sources of the
\* report the pipeline returns.
C30_OrderIndependent ==
    pc = "pipe_done" =>
        \A o \in SourceOrders : SameReport(MergedInOrder(o), pipe.all_allergens)

\* A report in which one class has three sources of three different
\* confidences, the recognizers' below the dictionary's.
C30_Witness ==
    /\ pc = "pipe_done"
    /\ cin = "Contains sesame"
    /\ "SESAME" \in DOMAIN pipe.all_allergens
    /\ pipe.all_allergens["SESAME"].sources = <<"dictionary", "baseline_ner", "robust_ner">>
    /\ AvgConf(pipe.baseline["SESAME"]) = [num |-> 90, den |-> 100]
    /\ AvgConf(pipe.robust["SESAME"]) = [num |-> 110, den |-> 200]
    /\ pipe.all_allergens["SESAME"].confidence = DictionaryConfidence
    /\ "ADDITIVE" \in DOMAIN pipe.all_allergens

====
